---- MODULE Spec2Model ----
(***************************************************************************)
(* A model of the htcondor-analyzer report database:                       *)
(*   - Database::Transact (db.cpp), the retrying transaction wrapper;      *)
(*   - FileIdentificationDatabase (db-file.cpp), the ledger that stages    *)
(*     reports and commits them in one transaction;                        *)
(*   - Report (db-report.cpp), the query that replays stored reports.      *)
(*   - LineEditor (LineEditor.cpp), the line buffer that is read from a    *)
(*     file, patched and written back through a temporary file;            *)
(*   - Carets (db-report.cpp), the marker line printed under a finding.    *)
(* SQLite and the file system are the environment: every sqlite3_step is   *)
(* one atomic interaction with the store whose outcome (done, busy,        *)
(* locked, another error) is chosen nondeterministically; uncommitted rows *)
(* are private to the connection that wrote them.                          *)
(***************************************************************************)
EXTENDS Integers, Sequences, FiniteSets, TLC

\* ---------------------------------------------------------------- constants
MaxRetries == 6
BackoffBase == 100

\* ------------------------------------------------------------------- bounds
\* SpecT: Transact calls made, rows one runner invocation writes.
MaxCalls == 1
MaxWrites == 1
\* Spec: calls made to the ledger plus changes made to files on disk.
MaxOps == 3
\* SpecR: the same budget for the run that the reporter reads.
MaxOpsR == 4
\* Spec, SpecC: store failures the environment injects.
MaxFaults == 1
\* SpecC, SpecM: reports staged, Commit calls and scans, over all processes.
MaxReportsC == 2
MaxCommitsC == 2
MaxScans == 1
\* SpecM: paths marked over all processes, changes made to the file.
MaxTouched == 1
MaxChanges == 1

\* SpecP, SpecW: characters of the file read, calls made to the editor,
\* characters of the texts given to Patch.
MaxFileLen == 3
MaxEdits == 3
MaxTextLen == 2

\* SpecK: characters of the text given to Carets, its column and width.
MaxCaretText == 3
MaxCaretColumn == 5
MaxCaretWidth == 2

\* SpecA: findings the scan delivers to the patch applier.
MaxFindings == 2
\* The deepest current directory Open() is called in.
MaxDepth == 3

\* ------------------------------------------------------------------ domains
Procs == {"p1", "p2"}
NoProc == "none"

\* Canonical paths of the files on disk, and the path names programs use;
\* "./a" is a second name of "/a".  PathOrder lists the names as std::map
\* and ORDER BY path order them.
Files == {"/a", "/b"}
PathNames == {"./a", "/a", "/b"}
PathOrder == <<"./a", "/a", "/b">>
Missing == <<0, 0>>
Fingerprints == {<<1, 1>>, <<2, 1>>}
Payloads == {[line |-> 1, column |-> 1, tool |-> "t", message |-> "m"],
             [line |-> 2, column |-> 1, tool |-> "t", message |-> "m"]}

TempCodes == {"BUSY", "LOCKED"}
FatalCodes == {"IOERR"}
ErrCodes == TempCodes \cup FatalCodes

NoTxn == [active |-> FALSE, files |-> <<>>, reports |-> <<>>]
NoMessage == [text |-> "", ctx |-> ""]
SummaryMessage == [text |-> "could not complete Transact", ctx |-> ""]

VARIABLES
  disk,          \* file system: canonical path -> fingerprint or Missing
  files,         \* committed rows of table files; the id is the position
  reports,       \* committed rows of table reports, in rowid order
  wlock,         \* the connection holding the store's write lock
  txn,           \* per connection: open transaction and its uncommitted rows
  ErrorMessage,  \* Database::ErrorMessage of each connection
  pc,            \* position of each process inside Transact
  Retries,       \* loop counter of Transact
  runnerResult,  \* the value the runner returned in the current attempt
  result,        \* the value the last Transact call returned
  FTable,        \* ledger: path -> canonical path of the shared FileTableEntry
  FTE,           \* ledger: the FileTableEntry objects, by canonical path
  Reports,       \* ledger: staged reports
  TouchedFiles,  \* ledger: paths marked for processing
  ncalls,        \* history: number of Transact calls started
  calls,         \* history: runner invocations in the current call
  sleeps,        \* history: back-off parameters slept in the current call
  naps,          \* history: whether sleeps are timed, and the microseconds of
                 \*          the last two sleeps of the current call
  lastAction,    \* history: last store statement stepped in the current call
  lastFail,      \* history: code of the last failed store operation
  cause,         \* history: why the last Transact call returned
  contended,     \* history: every abandoned attempt so far met busy/locked
  written,       \* history: rows written by the latest runner invocation
  attempts,      \* history: BEGIN statements stepped in the current call
  unitFail,      \* history: code of the store failure the runner returned on
  mask,          \* history: per file, first id of the last commit that marked it
  rpc,           \* query: position of the reader inside Report
  rsnap,         \* query: the rows its read transaction sees (table lengths)
  rpaths,        \* query: paths of the outer SELECT not yet stepped
  lastRecord,    \* ledger: the path and the return value of its last Record call
  rlast,         \* query: path just handled, the file id chosen, rows delivered
  rresult,       \* query: the local variable result of Report
  rabort,        \* query: it returned early because a statement failed
  rstopped,      \* query: the paths at which the callback returned false, this scan
  scans,         \* query: number of scans started
  faults,        \* environment: store failures still to inject (-1: any number)
  changes,       \* environment: number of changes made to files on disk
  efile,         \* editor: the file at Path on disk
  etmp,          \* editor: the file at Path + ".new" on disk
  Lines,         \* editor: LineEditor::Impl::Lines, the buffer
  wpc,           \* editor: position inside LineEditor::Write
  wout,          \* editor: the output stream of the last Write call (it failed,
                 \*         it created the temporary file)
  wbefore,       \* history: the file at Path when the current Write call began
  elast,         \* history: the last LineEditor call, its arguments and result,
                 \*          whether it repeated a Patch call that had succeeded
  ecalls,        \* history: number of LineEditor calls made
  carets,        \* history: the last Carets call, its arguments and result
  findings,      \* applier: rows of the scan not yet given to the callback
  apc,           \* applier: position of patch-sprintf-overload (none, scan, done)
  dry_run,       \* applier: Options::dry_run
  mainFailed,    \* applier: the variable failed of main
  mainFiles,     \* applier: the map Files of main, path -> buffer of its editor
  CB,            \* applier: the copies of failed and Files held by the callback
  scanOk,        \* applier: what Report returns to main
  exitStatus,    \* applier: exit status of the process ("signal": killed)
  alog,          \* history: a mismatch was printed, findings patched, the rows
                 \*          of the whole scan
  cwd,           \* open: the canonical path of the current directory
  stores,        \* open: the directories that hold a file named FileName
  opath,         \* open: the local variable path of Database::Open()
  opc,           \* open: position inside Database::Open() (none, start, loop, done)
  oret,          \* open: what Open() returned, the file it opened, ErrorMessage
  probes         \* history: the names Open() gave to access(), in order

storeVars == <<files, reports, wlock>>
connVars == <<txn, ErrorMessage>>
txVars == <<pc, Retries, runnerResult, result>>
ledgerVars == <<FTable, FTE, Reports, TouchedFiles, lastRecord>>
histVars == <<ncalls, calls, sleeps, naps, lastAction, lastFail, cause, contended, written,
              attempts, unitFail, mask>>
readerVars == <<rpc, rsnap, rpaths, rlast, rresult, rabort, rstopped, scans>>
envVars == <<disk, faults, changes>>
applyVars == <<findings, apc, dry_run, mainFailed, mainFiles, CB, scanOk, exitStatus,
               alog>>
openVars == <<cwd, stores, opath, opc, oret, probes>>
editVars == <<efile, etmp, Lines, wpc, wout, wbefore, elast, ecalls, carets, applyVars,
             openVars>>
dbVars == <<envVars, storeVars, connVars, txVars, ledgerVars, histVars, readerVars>>
vars == <<dbVars, editVars>>

\* Totals over all processes.
RECURSIVE Sum(_, _)
Sum(f, S) == IF S = {} THEN 0
             ELSE LET x == CHOOSE y \in S : TRUE IN f[x] + Sum(f, S \ {x})
TotalCalls == Sum(ncalls, Procs)
TotalReports == Sum([p \in Procs |-> Len(Reports[p])], Procs)
TotalTouched == Sum([p \in Procs |-> Len(TouchedFiles[p])], Procs)
TotalOps == TotalReports + TotalTouched + changes + TotalCalls

\* The environment injects a store failure only while it has some left.
MayFail == faults # 0
Spend(injected) == IF injected /\ faults > 0 THEN faults - 1 ELSE faults

\* ------------------------------------------------------------ small helpers
\* realpath(): the canonical path of a path name.
Canonical(path) == IF path = "./a" THEN "/a" ELSE path

\* ResolvePath (file.cpp): fails when the file is not on disk.
ResolvePath(path) == disk[Canonical(path)] # Missing

TemporaryErrorCode(code) == code = "BUSY" \/ code = "LOCKED"

\* Database::SetError: the store's error text, then the context in brackets.
SetError(code, Context) == [text |-> code, ctx |-> Context]

\* The result half of Database::SetTransactionError.
SetTransactionError(code) == IF TemporaryErrorCode(code) THEN "RETRY" ELSE "ERROR"

\* Mutant: the argument is shifted right where the code shifts left.
BackoffHalves(k) == (BackoffBase * 16) \div (2 ^ (k - 1))

\* RandomSleep's argument before attempt number k + 1: 100 << (k - 1).
Backoff(k) == BackoffBase * (2 ^ (k - 1))

NoNaps == [on |-> FALSE, us |-> <<>>]

\* rand() % n: of its values the least and the greatest are kept.
Rand(n) == {0, n - 1}

\* Mutant: the sleep is the sum of three values of rand() % (ms * 1000).
RandomSleepThree(ms) == {a + b + c : a, b, c \in Rand(ms * 1000)}

\* The durations RandomSleep(ms) may give to usleep, in microseconds: the sum
\* of two values of rand() % (ms * 1000).
RandomSleep(ms) == {a + b : a, b \in Rand(ms * 1000)}

\* Mutant: the loop runs once more than MaxRetries allows.
LoopContinuesOffByOne(n) == n <= MaxRetries

\* The loop condition of Transact.
LoopContinues(n) == n < MaxRetries

\* History tag of the rows one runner invocation writes.
Tag(p) == [proc |-> p, call |-> ncalls[p], attempt |-> Retries[p] + 1]

\* Rows of the committed store written by process p's current call.
FilesBy(p) == SelectSeq(files, LAMBDA r : r.by.proc = p /\ r.by.call = ncalls[p])
ReportsBy(p) == SelectSeq(reports, LAMBDA r : r.by.proc = p /\ r.by.call = ncalls[p])

Returned(p) == pc[p] = "idle" /\ result[p] # "NONE"

\* ------------------------------------------------------- store (environment)
\* What SQLite does to the connection's transaction when a statement fails:
\* some fatal errors roll the transaction back by themselves.
TxnAfterFailure(p, code, auto) ==
  IF auto /\ ~TemporaryErrorCode(code) THEN NoTxn ELSE txn[p]

LockAfterFailure(p, code, auto) ==
  IF auto /\ ~TemporaryErrorCode(code) /\ wlock = p THEN NoProc ELSE wlock

\* --------------------------------------------------------- Database::Transact
\* Mutant: leaving the loop keeps the message of the last failure.
ContinueWithoutSummary(p) ==
  /\ Retries' = [Retries EXCEPT ![p] = @ + 1]
  /\ IF LoopContinues(Retries[p] + 1)
     THEN /\ pc' = [pc EXCEPT ![p] = "begin"]
          /\ UNCHANGED <<result, cause, ErrorMessage>>
     ELSE /\ pc' = [pc EXCEPT ![p] = "idle"]
          /\ result' = [result EXCEPT ![p] = "ERROR"]
          /\ cause' = [cause EXCEPT ![p] = "exhausted"]
          /\ UNCHANGED ErrorMessage

\* `continue`: next loop iteration, or the exit of the loop after MaxRetries.
Continue(p) ==
  /\ Retries' = [Retries EXCEPT ![p] = @ + 1]
  /\ IF LoopContinues(Retries[p] + 1)
     THEN /\ pc' = [pc EXCEPT ![p] = "begin"]
          /\ UNCHANGED <<result, cause, ErrorMessage>>
     ELSE /\ pc' = [pc EXCEPT ![p] = "idle"]
          /\ result' = [result EXCEPT ![p] = "ERROR"]
          /\ cause' = [cause EXCEPT ![p] = "exhausted"]
          /\ ErrorMessage' = [ErrorMessage EXCEPT ![p] = SummaryMessage]

\* `return r` from Transact, leaving msg in ErrorMessage.
Return(p, r, why, msg) ==
  /\ pc' = [pc EXCEPT ![p] = "idle"]
  /\ result' = [result EXCEPT ![p] = r]
  /\ cause' = [cause EXCEPT ![p] = why]
  /\ ErrorMessage' = [ErrorMessage EXCEPT ![p] = msg]
  /\ UNCHANGED Retries

\* Entry of Transact: the three statements are prepared.
Transact(p) ==
  /\ pc[p] = "idle"
  /\ ncalls' = [ncalls EXCEPT ![p] = @ + 1]
  /\ calls' = [calls EXCEPT ![p] = 0]
  /\ sleeps' = [sleeps EXCEPT ![p] = <<>>]
  /\ naps' = [naps EXCEPT ![p].us = <<>>]
  /\ lastAction' = [lastAction EXCEPT ![p] = "NONE"]
  /\ contended' = [contended EXCEPT ![p] = TRUE]
  /\ written' = [written EXCEPT ![p] = 0]
  /\ attempts' = [attempts EXCEPT ![p] = 0]
  /\ unitFail' = [unitFail EXCEPT ![p] = "NONE"]
  /\ runnerResult' = [runnerResult EXCEPT ![p] = "NONE"]
  /\ Retries' = [Retries EXCEPT ![p] = 0]
  /\ \E prep \in {"OK"} \cup (IF MayFail THEN FatalCodes ELSE {}) :
       /\ faults' = Spend(prep # "OK")
       /\ IF prep = "OK"
          THEN /\ pc' = [pc EXCEPT ![p] = "begin"]
               /\ result' = [result EXCEPT ![p] = "NONE"]
               /\ cause' = [cause EXCEPT ![p] = "NONE"]
               /\ lastFail' = [lastFail EXCEPT ![p] = "NONE"]
               /\ UNCHANGED ErrorMessage
          ELSE /\ pc' = [pc EXCEPT ![p] = "idle"]
               /\ result' = [result EXCEPT ![p] = "ERROR"]
               /\ cause' = [cause EXCEPT ![p] = "prepare"]
               /\ lastFail' = [lastFail EXCEPT ![p] = prep]
               /\ ErrorMessage' = [ErrorMessage EXCEPT ![p] = SetError(prep, "Prepare")]
  /\ UNCHANGED <<editVars, readerVars, disk, changes, storeVars, txn, ledgerVars, mask>>

\* Top of one loop iteration: the back-off sleep, then BEGIN.
TransactBegin(p) ==
  /\ pc[p] = "begin"
  /\ sleeps' = [sleeps EXCEPT ![p] =
                  IF Retries[p] > 0 THEN Append(@, Backoff(Retries[p])) ELSE @]
  /\ IF Retries[p] > 0 /\ naps[p].on
     THEN \E us \in RandomSleep(Backoff(Retries[p])) :
            naps' = [naps EXCEPT ![p].us =
                       IF @ = <<>> THEN <<us>> ELSE <<@[Len(@)], us>>]
     ELSE UNCHANGED naps
  /\ lastAction' = [lastAction EXCEPT ![p] = "BEGIN"]
  /\ attempts' = [attempts EXCEPT ![p] = @ + 1]
  /\ \E ret \in (IF txn[p].active THEN {"ERROR"}
                  ELSE {"DONE"} \cup (IF MayFail THEN ErrCodes ELSE {})) :
       /\ faults' = Spend(ret \in ErrCodes)
       /\ IF ret = "DONE"
          THEN /\ txn' = [txn EXCEPT ![p] = [NoTxn EXCEPT !.active = TRUE]]
               /\ pc' = [pc EXCEPT ![p] = "run"]
               /\ UNCHANGED <<Retries, result, cause, ErrorMessage, lastFail>>
          ELSE /\ lastFail' = [lastFail EXCEPT ![p] = ret]
               /\ UNCHANGED txn
               /\ IF TemporaryErrorCode(ret)
                  THEN Continue(p)
                  ELSE Return(p, "ERROR", "begin", SetError(ret, "Transact BEGIN"))
  /\ UNCHANGED <<editVars, readerVars, disk, changes, storeVars, runnerResult, ledgerVars,
                 ncalls, calls, contended, written, unitFail, mask>>

\* Mutant: case ERROR steps the COMMIT statement.
StatementForErrorCommits(r) ==
  CASE r \in {"COMMIT", "ERROR"} -> "commit"
    [] r \in {"ROLLBACK", "RETRY"} -> "rollback"
    [] OTHER -> "none"

\* Mutant: case RETRY steps the COMMIT statement.
StatementForRetryCommits(r) ==
  CASE r \in {"COMMIT", "RETRY"} -> "commit"
    [] r \in {"ROLLBACK", "ERROR"} -> "rollback"
    [] OTHER -> "none"

\* The switch on the runner's result: the statement Transact steps next.
StatementFor(r) ==
  CASE r = "COMMIT" -> "commit"
    [] r \in {"ROLLBACK", "ERROR", "RETRY"} -> "rollback"
    [] OTHER -> "none"

\* What Transact does with the runner's result r; msg is the ErrorMessage the
\* runner left behind.
Dispatch(p, r, msg) ==
  /\ runnerResult' = [runnerResult EXCEPT ![p] = r]
  /\ IF StatementFor(r) = "none"
     THEN Return(p, "ERROR", "invalid",
                 SetError("not an error", "invalid Transact runner result"))
     ELSE /\ pc' = [pc EXCEPT ![p] = StatementFor(r)]
          /\ ErrorMessage' = [ErrorMessage EXCEPT ![p] = msg]
          /\ UNCHANGED <<Retries, result, cause>>

\* An arbitrary unit of work: it writes w rows and then either returns one of
\* the enum's values (or something else), or meets a store failure and returns
\* what SetTransactionError made of it.
GenericRunner(p) ==
  /\ pc[p] = "run"
  /\ calls' = [calls EXCEPT ![p] = @ + 1]
  /\ \E w \in 0 .. MaxWrites :
       /\ w > 0 => wlock \in {NoProc, p}
       /\ written' = [written EXCEPT ![p] = w]
       /\ LET rows == [i \in 1 .. w |->
                         [path |-> "/a", fp |-> <<1, 1>>, by |-> Tag(p), staged |-> <<>>,
                          seen |-> <<1, 1>>]]
              held == IF w > 0 THEN p ELSE wlock
          IN \/ \E r \in {"COMMIT", "ROLLBACK", "RETRY", "ERROR", "INVALID"} :
                  /\ txn' = [txn EXCEPT ![p].files = rows]
                  /\ wlock' = held
                  /\ UNCHANGED <<lastFail, faults>>
                  /\ unitFail' = [unitFail EXCEPT ![p] = "NONE"]
                  /\ Dispatch(p, r, IF r = "ERROR"
                                    THEN [text |-> "unit failed", ctx |-> ""]
                                    ELSE ErrorMessage[p])
             \/ \E code \in ErrCodes, auto \in BOOLEAN :
                  /\ MayFail
                  /\ faults' = Spend(TRUE)
                  /\ txn' = [txn EXCEPT ![p] =
                               IF auto /\ ~TemporaryErrorCode(code)
                               THEN NoTxn ELSE [@ EXCEPT !.files = rows]]
                  /\ wlock' = IF auto /\ ~TemporaryErrorCode(code) /\ held = p
                              THEN NoProc ELSE held
                  /\ lastFail' = [lastFail EXCEPT ![p] = code]
                  /\ unitFail' = [unitFail EXCEPT ![p] = code]
                  /\ Dispatch(p, SetTransactionError(code), SetError(code, "unit"))
  /\ UNCHANGED <<editVars, readerVars, disk, changes, files, reports, ledgerVars,
                 ncalls, sleeps, naps, lastAction, contended, attempts, mask>>

\* Mutant: a COMMIT replaces the rows the store has for the same path.
DoCommitReplaces(p) ==
  /\ files' = SelectSeq(files, LAMBDA r :
                          \A i \in 1 .. Len(txn[p].files) : txn[p].files[i].path # r.path)
              \o txn[p].files
  /\ reports' = reports \o txn[p].reports
  /\ txn' = [txn EXCEPT ![p] = NoTxn]
  /\ wlock' = IF wlock = p THEN NoProc ELSE wlock

\* The effect of a COMMIT statement that succeeds: the connection's rows
\* become the last rows of the store, all at once.
DoCommit(p) ==
  /\ files' = files \o txn[p].files
  /\ reports' = reports \o txn[p].reports
  /\ txn' = [txn EXCEPT ![p] = NoTxn]
  /\ wlock' = IF wlock = p THEN NoProc ELSE wlock

\* Mutant: the helper steps the COMMIT statement instead of ROLLBACK.
DoRollbackCommits(p) ==
  /\ files' = files \o txn[p].files
  /\ reports' = reports \o txn[p].reports
  /\ txn' = [txn EXCEPT ![p] = NoTxn]
  /\ wlock' = IF wlock = p THEN NoProc ELSE wlock

\* The effect of a ROLLBACK statement that succeeds: the rows are dropped.
DoRollback(p) ==
  /\ txn' = [txn EXCEPT ![p] = NoTxn]
  /\ wlock' = IF wlock = p THEN NoProc ELSE wlock
  /\ UNCHANGED <<files, reports>>

\* Mutant: a failed COMMIT loops without rolling back.
AfterFailedCommitNoRollback(p) == Continue(p)

\* case COMMIT when the COMMIT statement failed: roll back before looping.
AfterFailedCommit(p) ==
  /\ pc' = [pc EXCEPT ![p] = "rollback"]
  /\ UNCHANGED <<Retries, result, cause, ErrorMessage>>

\* case COMMIT: step the COMMIT statement.
CommitStep(p) ==
  /\ pc[p] = "commit"
  /\ lastAction' = [lastAction EXCEPT ![p] = "COMMIT"]
  /\ \E ret \in {"DONE"} \cup (IF MayFail THEN ErrCodes ELSE {}), auto \in BOOLEAN :
       /\ faults' = Spend(ret # "DONE")
       /\ IF ret = "DONE"
          THEN /\ auto
               /\ DoCommit(p)
               /\ mask' = [f \in Files |->
                             IF \E i \in 1 .. Len(TouchedFiles[p]) :
                                  Canonical(TouchedFiles[p][i]) = f
                             THEN Len(files) + 1 ELSE mask[f]]
               /\ UNCHANGED <<lastFail, contended>>
               /\ Return(p, "COMMIT", "NONE", ErrorMessage[p])
          ELSE /\ (TemporaryErrorCode(ret) => auto)
               /\ lastFail' = [lastFail EXCEPT ![p] = ret]
               /\ contended' = [contended EXCEPT ![p] = @ /\ TemporaryErrorCode(ret)]
               /\ txn' = [txn EXCEPT ![p] = TxnAfterFailure(p, ret, auto)]
               /\ wlock' = LockAfterFailure(p, ret, auto)
               /\ AfterFailedCommit(p)
               /\ UNCHANGED <<files, reports, mask>>
  /\ UNCHANGED <<editVars, readerVars, disk, changes, runnerResult, ledgerVars,
                 ncalls, calls, sleeps, naps, written, attempts, unitFail>>

\* Mutant: case ROLLBACK loops like case RETRY.
AfterRollbackRetriesRollback(p) ==
  IF runnerResult[p] \in {"COMMIT", "RETRY", "ROLLBACK"}
  THEN Continue(p)
  ELSE Return(p, runnerResult[p], "NONE", ErrorMessage[p])

\* After a ROLLBACK that succeeded: retry, or return the runner's result.
AfterRollback(p) ==
  IF runnerResult[p] \in {"COMMIT", "RETRY"}
  THEN Continue(p)
  ELSE Return(p, runnerResult[p], "NONE", ErrorMessage[p])

\* Mutant: the failure of the ROLLBACK is not recorded.
AfterFailedRollbackSilent(p, code) ==
  Return(p, "ERROR", IF runnerResult[p] = "ERROR" THEN "NONE" ELSE "rollback",
         ErrorMessage[p])

\* Mutant: case ERROR uses the helper Rollback too, which reports the failure
\* of the ROLLBACK.
AfterFailedRollbackReports(p, code) ==
  Return(p, "ERROR", "rollback", SetError(code, "Transact ROLLBACK"))

\* After a ROLLBACK that failed with code: case ERROR keeps the runner's
\* message, the other cases report the failure of the ROLLBACK.
AfterFailedRollback(p, code) ==
  IF runnerResult[p] = "ERROR"
  THEN Return(p, "ERROR", "NONE", ErrorMessage[p])
  ELSE Return(p, "ERROR", "rollback", SetError(code, "Transact ROLLBACK"))

\* The static helper Rollback and the ERROR case: step the ROLLBACK statement.
RollbackStep(p) ==
  /\ pc[p] = "rollback"
  /\ lastAction' = [lastAction EXCEPT ![p] = "ROLLBACK"]
  /\ \E ret \in (IF txn[p].active
                  THEN {"DONE"} \cup (IF MayFail THEN FatalCodes ELSE {})
                  ELSE {"ERROR"}) :
       /\ faults' = Spend(ret \in FatalCodes)
       /\ IF ret = "DONE"
          THEN /\ DoRollback(p)
               /\ UNCHANGED lastFail
               /\ AfterRollback(p)
          ELSE /\ lastFail' = [lastFail EXCEPT ![p] = ret]
               /\ UNCHANGED <<txn, wlock, files, reports>>
               /\ AfterFailedRollback(p, ret)
  /\ UNCHANGED <<editVars, readerVars, disk, changes, runnerResult, ledgerVars,
                 ncalls, calls, sleeps, naps, contended, written, attempts, unitFail, mask>>

TransactStep(p) ==
  \/ TransactBegin(p)
  \/ CommitStep(p)
  \/ RollbackStep(p)

\* ------------------------------------------------------- file identification
NoEntry == [fp |-> Missing, ID |-> 0]
NotFound(Path) == [text |-> "could not find file on disk: ", ctx |-> Path]

\* Impl::Resolve on the tables ft (FTable) and fte (the entries): the entry for
\* Path, memoized under Path and under its canonical path.
Resolve(ft, fte, Path) ==
  IF ft[Path] # ""
  THEN [ok |-> TRUE, key |-> ft[Path], FTable |-> ft, FTE |-> fte]
  ELSE IF ~ResolvePath(Path)
  THEN [ok |-> FALSE, key |-> "", FTable |-> ft, FTE |-> fte]
  ELSE LET c == Canonical(Path)
       IN IF ft[c] = ""
          THEN [ok |-> TRUE, key |-> c,
                FTable |-> [ft EXCEPT ![Path] = c, ![c] = c],
                FTE |-> [fte EXCEPT ![c] = [fp |-> disk[c], ID |-> 0]]]
          ELSE [ok |-> TRUE, key |-> ft[c],
                FTable |-> [ft EXCEPT ![Path] = ft[c]], FTE |-> fte]

\* ------------------------------------------------ FileIdentificationDatabase
NoRecord == [Path |-> "", ret |-> FALSE]

\* Impl::Record, behind FileIdentificationDatabase::Report.
Record(p, Path, payload) ==
  /\ pc[p] = "idle"
  /\ LET r == Resolve(FTable[p], FTE[p], Path)
     IN /\ FTable' = [FTable EXCEPT ![p] = r.FTable]
        /\ FTE' = [FTE EXCEPT ![p] = r.FTE]
        /\ lastRecord' = [lastRecord EXCEPT ![p] = [Path |-> Path, ret |-> r.ok]]
        /\ IF r.ok
           THEN /\ Reports' = [Reports EXCEPT ![p] =
                                 Append(@, [FI |-> r.key, payload |-> payload,
                                            seen |-> disk[Canonical(Path)]])]
                /\ UNCHANGED ErrorMessage
           ELSE /\ ErrorMessage' = [ErrorMessage EXCEPT ![p] = NotFound(Path)]
                /\ UNCHANGED Reports
  /\ result' = [result EXCEPT ![p] = "NONE"]
  /\ UNCHANGED <<editVars, readerVars, disk, changes, faults, storeVars, txn, pc, Retries, runnerResult,
                 TouchedFiles, histVars>>

\* Mutant: the path is resolved when it is marked.
MarkForProcessingResolves(p, Path) ==
  /\ pc[p] = "idle"
  /\ TouchedFiles' = [TouchedFiles EXCEPT ![p] = Append(@, Path)]
  /\ FTable' = [FTable EXCEPT ![p] = Resolve(FTable[p], FTE[p], Path).FTable]
  /\ FTE' = [FTE EXCEPT ![p] = Resolve(FTable[p], FTE[p], Path).FTE]
  /\ result' = [result EXCEPT ![p] = "NONE"]
  /\ UNCHANGED <<editVars, readerVars, disk, changes, faults, storeVars, connVars, pc, Retries, runnerResult,
                 Reports, lastRecord, histVars>>

MarkForProcessing(p, Path) ==
  /\ pc[p] = "idle"
  /\ TouchedFiles' = [TouchedFiles EXCEPT ![p] = Append(@, Path)]
  /\ result' = [result EXCEPT ![p] = "NONE"]
  /\ UNCHANGED <<editVars, readerVars, disk, changes, faults, storeVars, connVars, pc, Retries, runnerResult,
                 FTable, FTE, Reports, lastRecord, histVars>>

\* The rows of table files connection p sees: committed and its own.
FilesSeen(p) == files \o txn[p].files

\* Mutant: a touched path is resolved whether or not the store has a row of it.
MarkAsProcessedAlwaysResolves(p, Path, ft, fte, code) ==
  LET same == [tret |-> "COMMIT", FTable |-> ft, FTE |-> fte,
               msg |-> ErrorMessage[p], code |-> "NONE"]
  IN IF ~ResolvePath(Path)
     THEN [same EXCEPT !.tret = "ERROR", !.msg = NotFound(Path)]
     ELSE IF code # "NONE"
     THEN [same EXCEPT !.tret = SetTransactionError(code),
                       !.msg = SetError(code, "SELECT id FROM files"), !.code = code]
     ELSE LET r == Resolve(ft, fte, Path)
          IN IF r.ok
             THEN [same EXCEPT !.FTable = r.FTable, !.FTE = r.FTE]
             ELSE [same EXCEPT !.tret = "ERROR", !.msg = NotFound(Path)]

\* Mutant: a touched path with no file on disk is passed over.
MarkAsProcessedSkipsMissing(p, Path, ft, fte, code) ==
  LET same == [tret |-> "COMMIT", FTable |-> ft, FTE |-> fte,
               msg |-> ErrorMessage[p], code |-> "NONE"]
  IN IF ~ResolvePath(Path)
     THEN same
     ELSE IF code # "NONE"
     THEN [same EXCEPT !.tret = SetTransactionError(code),
                       !.msg = SetError(code, "SELECT id FROM files"), !.code = code]
     ELSE IF \A i \in 1 .. Len(FilesSeen(p)) : FilesSeen(p)[i].path # Canonical(Path)
     THEN same
     ELSE LET r == Resolve(ft, fte, Path)
          IN IF r.ok
             THEN [same EXCEPT !.FTable = r.FTable, !.FTE = r.FTE]
             ELSE [same EXCEPT !.tret = "ERROR", !.msg = NotFound(Path)]

\* Impl::MarkAsProcessed on the tables ft, fte; code is the failure the store
\* injects into its SELECT ("NONE" for none).
MarkAsProcessed(p, Path, ft, fte, code) ==
  LET same == [tret |-> "COMMIT", FTable |-> ft, FTE |-> fte,
               msg |-> ErrorMessage[p], code |-> "NONE"]
  IN IF ~ResolvePath(Path)
     THEN [same EXCEPT !.tret = "ERROR", !.msg = NotFound(Path)]
     ELSE IF code # "NONE"
     THEN [same EXCEPT !.tret = SetTransactionError(code),
                       !.msg = SetError(code, "SELECT id FROM files"), !.code = code]
     ELSE IF \A i \in 1 .. Len(FilesSeen(p)) : FilesSeen(p)[i].path # Canonical(Path)
     THEN same
     ELSE LET r == Resolve(ft, fte, Path)
          IN IF r.ok
             THEN [same EXCEPT !.FTable = r.FTable, !.FTE = r.FTE]
             ELSE [same EXCEPT !.tret = "ERROR", !.msg = NotFound(Path)]

\* The first loop of RunCommitTransaction, from touched path number i on;
\* fail is the injected store failure.  MarkNext is the loop's test of tret.
RECURSIVE MarkFrom(_, _, _, _, _)
MarkNext(p, i, fail, m) ==
  IF m.tret # "COMMIT" THEN m ELSE MarkFrom(p, i + 1, m.FTable, m.FTE, fail)

MarkFrom(p, i, ft, fte, fail) ==
  IF i > Len(TouchedFiles[p])
  THEN [tret |-> "COMMIT", FTable |-> ft, FTE |-> fte,
        msg |-> ErrorMessage[p], code |-> "NONE"]
  ELSE MarkNext(p, i, fail,
                MarkAsProcessed(p, TouchedFiles[p][i], ft, fte,
                                IF fail.at = i THEN fail.code ELSE "NONE"))

\* Mutant: secondary entries are not skipped.
CanonKeysWithAliases(ft) == SelectSeq(PathOrder, LAMBDA k : ft[k] # "")

\* The keys of FTable that are the canonical path of their entry, in map order.
CanonKeys(ft) == SelectSeq(PathOrder, LAMBDA k : ft[k] = k)

\* The reports staged for the entry with canonical path f, in staging order.
RECURSIVE StagedFor(_, _)
StagedFor(rs, f) ==
  IF rs = <<>> THEN <<>>
  ELSE (IF Head(rs).FI = f THEN <<Head(rs).payload>> ELSE <<>>) \o StagedFor(Tail(rs), f)

\* Impl::RunCommitTransaction as one unit of work.  Its store operations are
\* numbered: the SELECT of touched path i is i, then with T touched paths,
\* C canonical entries and R reports: T+1 prepares the INSERT into files,
\* T+1+j inserts entry j, T+C+2 prepares the INSERT into reports and T+C+2+k
\* inserts report k.  fail.at is the operation that fails (0: none).

\* Mutant: the entries keep the IDs they had; the rowid of the new row is not
\* stored.
InsertRowsKeepsIDs(p, fail, m, keys, nf, nr, base, failed, ops) ==
  [tret |-> IF failed THEN SetTransactionError(fail.code) ELSE "COMMIT",
   FTable |-> m.FTable, FTE |-> m.FTE,
   msg |-> IF failed THEN SetError(fail.code, "INSERT") ELSE m.msg,
   code |-> IF failed THEN fail.code ELSE "NONE",
   files |-> [j \in 1 .. nf |->
                [path |-> m.FTable[keys[j]], fp |-> m.FTE[m.FTable[keys[j]]].fp,
                 by |-> Tag(p),
                 staged |-> StagedFor(Reports[p], m.FTable[keys[j]]),
                 seen |-> disk[m.FTable[keys[j]]]]],
   reports |-> [k \in 1 .. nr |->
                  [file |-> m.FTE[Reports[p][k].FI].ID,
                   payload |-> Reports[p][k].payload, by |-> Tag(p),
                   seen |-> Reports[p][k].seen]],
   ops |-> ops]

\* Mutant: an entry that already has an ID keeps it; only the first row
\* inserted for an entry gives it its ID.
InsertRowsFirstID(p, fail, m, keys, nf, nr, base, failed, ops) ==
  LET fte2 == [f \in Files |->
                 IF m.FTE[f].ID = 0 /\ \E j \in 1 .. nf : m.FTable[keys[j]] = f
                 THEN [m.FTE[f] EXCEPT
                         !.ID = base + (CHOOSE j \in 1 .. nf :
                                          /\ m.FTable[keys[j]] = f
                                          /\ \A i \in 1 .. nf :
                                                m.FTable[keys[i]] = f => i <= j)]
                 ELSE m.FTE[f]]
  IN [tret |-> IF failed THEN SetTransactionError(fail.code) ELSE "COMMIT",
      FTable |-> m.FTable, FTE |-> fte2,
      msg |-> IF failed THEN SetError(fail.code, "INSERT") ELSE m.msg,
      code |-> IF failed THEN fail.code ELSE "NONE",
      files |-> [j \in 1 .. nf |->
                   [path |-> m.FTable[keys[j]], fp |-> m.FTE[m.FTable[keys[j]]].fp,
                    by |-> Tag(p),
                    staged |-> StagedFor(Reports[p], m.FTable[keys[j]]),
                    seen |-> disk[m.FTable[keys[j]]]]],
      reports |-> [k \in 1 .. nr |->
                     [file |-> fte2[Reports[p][k].FI].ID,
                      payload |-> Reports[p][k].payload, by |-> Tag(p),
                      seen |-> Reports[p][k].seen]],
      ops |-> ops]

\* The two INSERT loops: the first nf entries of keys and the first nr reports
\* are inserted; each entry's ID becomes the rowid of its row.
InsertRows(p, fail, m, keys, nf, nr, base, failed, ops) ==
  LET fte2 == [f \in Files |->
                 IF \E j \in 1 .. nf : m.FTable[keys[j]] = f
                 THEN [m.FTE[f] EXCEPT
                         !.ID = base + (CHOOSE j \in 1 .. nf :
                                          /\ m.FTable[keys[j]] = f
                                          /\ \A i \in 1 .. nf :
                                                m.FTable[keys[i]] = f => i <= j)]
                 ELSE m.FTE[f]]
  IN [tret |-> IF failed THEN SetTransactionError(fail.code) ELSE "COMMIT",
      FTable |-> m.FTable, FTE |-> fte2,
      msg |-> IF failed THEN SetError(fail.code, "INSERT") ELSE m.msg,
      code |-> IF failed THEN fail.code ELSE "NONE",
      files |-> [j \in 1 .. nf |->
                   [path |-> m.FTable[keys[j]], fp |-> m.FTE[m.FTable[keys[j]]].fp,
                    by |-> Tag(p),
                    staged |-> StagedFor(Reports[p], m.FTable[keys[j]]),
                    seen |-> disk[m.FTable[keys[j]]]]],
      reports |-> [k \in 1 .. nr |->
                     [file |-> fte2[Reports[p][k].FI].ID,
                      payload |-> Reports[p][k].payload, by |-> Tag(p),
                      seen |-> Reports[p][k].seen]],
      ops |-> ops]

\* How far the INSERT loops get before operation fail.at fails.
InsertUntil(p, fail, m, keys, T, C, R) ==
  InsertRows(p, fail, m, keys,
             IF fail.at <= T THEN C
             ELSE IF fail.at <= T + 1 THEN 0
             ELSE IF fail.at <= T + 1 + C THEN fail.at - (T + 2)
             ELSE C,
             IF fail.at <= T THEN R
             ELSE IF fail.at <= T + C + 2 THEN 0
             ELSE IF fail.at <= T + C + 2 + R THEN fail.at - (T + C + 3)
             ELSE R,
             Len(FilesSeen(p)), fail.at > T, T + C + 2 + R)

\* After the first loop returned m: return its tret, or go on to the INSERTs.
AfterMarks(p, fail, m, keys) ==
  IF m.tret # "COMMIT"
  THEN [tret |-> m.tret, FTable |-> m.FTable, FTE |-> m.FTE, msg |-> m.msg,
        code |-> m.code, files |-> <<>>, reports |-> <<>>,
        ops |-> Len(TouchedFiles[p])]
  ELSE InsertUntil(p, fail, m, keys,
                   Len(TouchedFiles[p]), Len(keys), Len(Reports[p]))

MarkedTables(p, fail, m) == AfterMarks(p, fail, m, CanonKeys(m.FTable))

RunCommit(p, fail) == MarkedTables(p, fail, MarkFrom(p, 1, FTable[p], FTE[p], fail))

\* What the run of the unit of work leaves behind, given the outcome run of
\* RunCommit with failure code at operation at.  An INSERT meets BUSY when
\* another connection holds the write lock; a fatal failure may roll the
\* transaction back by itself (auto).
RunOutcome(p, at, code, auto, run, T, locked) ==
  LET wrote == Len(run.files) > 0
      rolled == auto /\ run.code # "NONE" /\ ~TemporaryErrorCode(run.code)
      forced == locked /\ at = T + 2 /\ run.code # "NONE"
  IN /\ at <= run.ops
     /\ (at # 0 /\ ~forced) => MayFail
     /\ faults' = Spend(run.code # "NONE" /\ ~forced)
     /\ (at = 0 => code = "BUSY" /\ auto)
     /\ (run.code = "NONE" \/ TemporaryErrorCode(run.code)) => auto
     /\ locked => ~wrote
     /\ (locked /\ run.tret = "COMMIT") => Len(CanonKeys(run.FTable)) = 0
     /\ (locked /\ run.code # "NONE" /\ at > T + 2) => FALSE
     /\ (locked /\ at = T + 2 /\ Len(CanonKeys(run.FTable)) > 0) => code = "BUSY"
     /\ FTable' = [FTable EXCEPT ![p] = run.FTable]
     /\ FTE' = [FTE EXCEPT ![p] = run.FTE]
     /\ written' = [written EXCEPT ![p] = Len(run.files) + Len(run.reports)]
     /\ txn' = [txn EXCEPT ![p] =
                  IF rolled THEN NoTxn
                  ELSE [@ EXCEPT !.files = run.files, !.reports = run.reports]]
     /\ wlock' = IF rolled THEN (IF wlock = p THEN NoProc ELSE wlock)
                 ELSE IF wrote THEN p ELSE wlock
     /\ lastFail' = [lastFail EXCEPT ![p] =
                       IF run.code # "NONE" THEN run.code ELSE @]
     /\ unitFail' = [unitFail EXCEPT ![p] = run.code]
     /\ Dispatch(p, run.tret, run.msg)

\* The runner of Commit, invoked by Transact.
RunCommitTransaction(p) ==
  /\ pc[p] = "run"
  /\ calls' = [calls EXCEPT ![p] = @ + 1]
  /\ \E at \in 0 .. (Len(TouchedFiles[p]) + Cardinality(Files) + 2 + Len(Reports[p])),
        code \in ErrCodes, auto \in BOOLEAN :
       RunOutcome(p, at, code, auto, RunCommit(p, [at |-> at, code |-> code]),
                  Len(TouchedFiles[p]), wlock \notin {NoProc, p})
  /\ UNCHANGED <<editVars, readerVars, disk, changes, files, reports, Reports, TouchedFiles,
                 lastRecord, ncalls, sleeps, naps, lastAction, contended, attempts, mask>>

\* FileIdentificationDatabase::Commit: one Transact call with this runner.
Commit(p) == Transact(p)

\* ------------------------------------------------------ Report (db-report.cpp)
NoLast == [path |-> "", FID |-> 0, delivered |-> <<>>, stopped |-> FALSE]

\* SELECT DISTINCT: the first occurrence of each row, in scan order.
RECURSIVE Distinct(_)
Distinct(rows) ==
  IF rows = <<>> THEN <<>>
  ELSE LET front == Distinct(SubSeq(rows, 1, Len(rows) - 1))
           last == rows[Len(rows)]
       IN IF \E i \in 1 .. Len(front) : front[i] = last THEN front
          ELSE Append(front, last)

\* SELECT DISTINCT path FROM files ORDER BY path, on the first n rows.
FileList(n) == SelectSeq(PathOrder, LAMBDA k : \E i \in 1 .. n : files[i].path = k)

\* Mutant: the query takes the oldest matching row (ORDER BY id ASC).
FileIDOldest(n, path, fp) ==
  LET ids == {i \in 1 .. n : files[i].path = path /\ files[i].fp = fp}
  IN IF ids = {} THEN 0 ELSE CHOOSE i \in ids : \A j \in ids : i <= j

\* SELECT id FROM files WHERE path = ? AND mtime = ? AND size = ?
\* ORDER BY id DESC LIMIT 1, on the first n rows; 0 when no row matches.
FileID(n, path, fp) ==
  LET ids == {i \in 1 .. n : files[i].path = path /\ files[i].fp = fp}
  IN IF ids = {} THEN 0 ELSE CHOOSE i \in ids : \A j \in ids : j <= i

\* The rows of table reports with file = FID among the first n, by rowid.
ReportRows(n, FID) == SelectSeq(SubSeq(reports, 1, n), LAMBDA r : r.file = FID)

\* Mutant: the query without DISTINCT.
ReportQueryAll(n, FID) ==
  [i \in 1 .. Len(ReportRows(n, FID)) |-> ReportRows(n, FID)[i].payload]

\* SELECT DISTINCT line, column, tool, message FROM reports WHERE file = ?
\* ORDER BY rowid.
ReportQuery(n, FID) ==
  Distinct([i \in 1 .. Len(ReportRows(n, FID)) |-> ReportRows(n, FID)[i].payload])

\* The statements are prepared and the outer SELECT is stepped for the first
\* time: the read transaction starts and lasts until that SELECT is done.
ReportStart ==
  /\ rpc = "idle"
  /\ scans' = scans + 1
  /\ rpc' = "scan"
  /\ rsnap' = [files |-> Len(files), reports |-> Len(reports)]
  /\ rpaths' = FileList(Len(files))
  /\ rlast' = NoLast
  /\ rresult' = TRUE
  /\ rabort' = FALSE
  /\ rstopped' = {}
  /\ UNCHANGED <<editVars, envVars, storeVars, connVars, txVars, ledgerVars, histVars>>

\* Mutant: a path without a matching row leaves the result as it is.
ReportPathKeepsResult ==
  /\ rpc = "scan"
  /\ rpaths # <<>>
  /\ rpaths' = Tail(rpaths)
  /\ LET path == Head(rpaths)
         valid == ResolvePath(path)
         FID == IF valid THEN FileID(rsnap.files, path, disk[Canonical(path)]) ELSE 0
         rows == ReportQuery(rsnap.reports, FID)
     IN IF FID = 0
        THEN /\ UNCHANGED rresult
             /\ rlast' = [path |-> path, FID |-> 0, delivered |-> <<>>,
                          stopped |-> FALSE]
        ELSE /\ UNCHANGED rresult
             /\ \E n \in 0 .. Len(rows) :
                  /\ (n = 0 => rows = <<>>)
                  /\ rlast' = [path |-> path, FID |-> FID,
                               delivered |-> SubSeq(rows, 1, n),
                               stopped |-> n < Len(rows)]
  /\ rstopped' = IF rlast'.stopped THEN rstopped \cup {Head(rpaths)} ELSE rstopped
  /\ UNCHANGED <<rpc, rsnap, rabort, scans>>
  /\ UNCHANGED <<editVars, envVars, storeVars, connVars, txVars, ledgerVars, histVars>>

\* Mutant: a callback that returns false ends the whole scan.
ReportPathStopEndsScan ==
  /\ rpc = "scan"
  /\ rpaths # <<>>
  /\ LET path == Head(rpaths)
         valid == ResolvePath(path)
         FID == IF valid THEN FileID(rsnap.files, path, disk[Canonical(path)]) ELSE 0
         rows == ReportQuery(rsnap.reports, FID)
     IN IF FID = 0
        THEN /\ rresult' = FALSE
             /\ rlast' = [path |-> path, FID |-> 0, delivered |-> <<>>,
                          stopped |-> FALSE]
        ELSE /\ UNCHANGED rresult
             /\ \E n \in 0 .. Len(rows) :
                  /\ (n = 0 => rows = <<>>)
                  /\ rlast' = [path |-> path, FID |-> FID,
                               delivered |-> SubSeq(rows, 1, n),
                               stopped |-> n < Len(rows)]
  /\ rstopped' = IF rlast'.stopped THEN rstopped \cup {Head(rpaths)} ELSE rstopped
  /\ rpaths' = IF rlast'.stopped THEN <<>> ELSE Tail(rpaths)
  /\ UNCHANGED <<rpc, rsnap, rabort, scans>>
  /\ UNCHANGED <<editVars, envVars, storeVars, connVars, txVars, ledgerVars, histVars>>

\* One iteration of the outer loop: the next path, its file on disk, the
\* matching row of files and that row's reports, handed to the callback until
\* it returns false (after n reports) or the rows end.
ReportPath ==
  /\ rpc = "scan"
  /\ rpaths # <<>>
  /\ rpaths' = Tail(rpaths)
  /\ LET path == Head(rpaths)
         valid == ResolvePath(path)
         FID == IF valid THEN FileID(rsnap.files, path, disk[Canonical(path)]) ELSE 0
         rows == ReportQuery(rsnap.reports, FID)
     IN IF FID = 0
        THEN /\ rresult' = FALSE
             /\ rlast' = [path |-> path, FID |-> 0, delivered |-> <<>>,
                          stopped |-> FALSE]
        ELSE /\ UNCHANGED rresult
             /\ \E n \in 0 .. Len(rows) :
                  /\ (n = 0 => rows = <<>>)
                  /\ rlast' = [path |-> path, FID |-> FID,
                               delivered |-> SubSeq(rows, 1, n),
                               stopped |-> n < Len(rows)]
  /\ rstopped' = IF rlast'.stopped THEN rstopped \cup {Head(rpaths)} ELSE rstopped
  /\ UNCHANGED <<rpc, rsnap, rabort, scans>>
  /\ UNCHANGED <<editVars, envVars, storeVars, connVars, txVars, ledgerVars, histVars>>

\* The outer SELECT is done: Report returns result.
ReportEnd ==
  /\ rpc = "scan"
  /\ rpaths = <<>>
  /\ rpc' = "idle"
  /\ UNCHANGED <<rsnap, rpaths, rlast, rresult, rabort, rstopped, scans>>
  /\ UNCHANGED <<editVars, envVars, storeVars, connVars, txVars, ledgerVars, histVars>>

\* A statement of the query fails (a step returns neither a row nor
\* SQLITE_DONE): Report returns false at once.
ReportFail ==
  /\ rpc = "scan"
  /\ rpc' = "idle"
  /\ rresult' = FALSE
  /\ rabort' = TRUE
  /\ UNCHANGED <<rsnap, rpaths, rlast, rstopped, scans>>
  /\ UNCHANGED <<editVars, envVars, storeVars, connVars, txVars, ledgerVars, histVars>>

\* --------------------------------------------------------------- file system
\* Another program rewrites, removes or restores a file.
Touch(f, fp) ==
  /\ disk[f] # fp
  /\ changes' = changes + 1
  /\ UNCHANGED faults
  /\ disk' = [disk EXCEPT ![f] = fp]
  /\ mask' = [mask EXCEPT ![f] = 0]
  /\ UNCHANGED <<editVars, storeVars, connVars, txVars, ledgerVars, readerVars,
                 ncalls, calls, sleeps, naps, lastAction, lastFail, cause, contended, written,
                 attempts, unitFail>>

\* --------------------------------------------------------------- LineEditor
\* A file is the sequence of its characters; a line of the buffer is the
\* sequence of its characters without the newline.
Chars == {"a", "b"}
NL == "\n"
NoFile == [exists |-> FALSE, data |-> <<>>]
File(data) == [exists |-> TRUE, data |-> data]
Texts(n) == UNION {[1..k -> Chars] : k \in 0..n}
Fills(n) == UNION {[1..k -> {"b"}] : k \in 0..n}
Contents(n) == UNION {[1..k -> Chars \cup {NL}] : k \in 0..n}
NoStream == [failed |-> FALSE, created |-> FALSE]
NoCall == [op |-> "none", ret |-> FALSE, Line |-> 0, Column |-> 0,
           Old |-> <<>>, New |-> <<>>, again |-> FALSE]
Call(op, ret) == [NoCall EXCEPT !.op = op, !.ret = ret]

\* The loop of Read: std::getline takes the characters up to the next
\* newline; a line is kept only if the stream has not met the end of file.
RECURSIVE GetLines(_)
GetLines(data) ==
  IF \A i \in 1..Len(data) : data[i] # NL THEN <<>>
  ELSE LET i == CHOOSE i \in 1..Len(data) :
                  data[i] = NL /\ \A j \in 1..(i - 1) : data[j] # NL
       IN <<SubSeq(data, 1, i - 1)>> \o GetLines(SubSeq(data, i + 1, Len(data)))

\* The loop of Write: out << line << '\n' for every line.
RECURSIVE PutLines(_)
PutLines(lines) ==
  IF lines = <<>> THEN <<>>
  ELSE Head(lines) \o <<NL>> \o PutLines(Tail(lines))

\* LineEditor::Read; ok is FALSE when the file cannot be opened or read.
Read ==
  /\ wpc = "idle"
  /\ \E ok \in BOOLEAN :
       /\ ~efile.exists => ~ok
       /\ Lines' = IF ok THEN GetLines(efile.data) ELSE Lines
       /\ elast' = Call("Read", ok)
  /\ ecalls' = ecalls + 1
  /\ UNCHANGED <<efile, etmp, wpc, wout, wbefore>>
  /\ UNCHANGED <<dbVars, carets, applyVars, openVars>>

\* Patch without the comparison of the text with Old.
PatchedNoCompare(lines, Line, Column, Old, New) ==
  IF Line = 0 \/ Line > Len(lines) THEN [ret |-> FALSE, Lines |-> lines]
  ELSE LET ToPatch == lines[Line]
           Offset == Column - 1
       IN IF Column = 0 \/ Column > Len(ToPatch)
          THEN [ret |-> FALSE, Lines |-> lines]
          ELSE IF Len(Old) >= Len(ToPatch) - Offset
               THEN [ret |-> FALSE, Lines |-> lines]
               ELSE [ret |-> TRUE,
                     Lines |-> [lines EXCEPT ![Line] =
                                  SubSeq(ToPatch, 1, Offset) \o New \o
                                  SubSeq(ToPatch, Offset + Len(Old) + 1,
                                         Len(ToPatch))]]

\* Patch that reports success and leaves the line as it was.
PatchedKeepsOld(lines, Line, Column, Old, New) ==
  IF Line = 0 \/ Line > Len(lines) THEN [ret |-> FALSE, Lines |-> lines]
  ELSE LET ToPatch == lines[Line]
           Offset == Column - 1
       IN IF Column = 0 \/ Column > Len(ToPatch)
          THEN [ret |-> FALSE, Lines |-> lines]
          ELSE [ret |-> /\ Len(Old) < Len(ToPatch) - Offset
                        /\ SubSeq(ToPatch, Offset + 1, Offset + Len(Old)) = Old,
                Lines |-> lines]

\* What LineEditor::Patch returns and the buffer it leaves.
Patched(lines, Line, Column, Old, New) ==
  IF Line = 0 \/ Line > Len(lines) THEN [ret |-> FALSE, Lines |-> lines]
  ELSE LET ToPatch == lines[Line]
           Offset == Column - 1
       IN IF Column = 0 \/ Column > Len(ToPatch)
          THEN [ret |-> FALSE, Lines |-> lines]
          ELSE IF \/ Len(Old) >= Len(ToPatch) - Offset
                  \/ SubSeq(ToPatch, Offset + 1, Offset + Len(Old)) # Old
               THEN [ret |-> FALSE, Lines |-> lines]
               ELSE [ret |-> TRUE,
                     Lines |-> [lines EXCEPT ![Line] =
                                  SubSeq(ToPatch, 1, Offset) \o New \o
                                  SubSeq(ToPatch, Offset + Len(Old) + 1,
                                         Len(ToPatch))]]

\* The length of the longest line of the buffer.
Longest(lines) ==
  IF lines = <<>> THEN 0
  ELSE CHOOSE n \in {Len(lines[i]) : i \in 1..Len(lines)} :
         \A i \in 1..Len(lines) : Len(lines[i]) <= n

\* LineEditor::Patch.
Patch(Line, Column, Old, New) ==
  /\ wpc = "idle"
  /\ LET r == Patched(Lines, Line, Column, Old, New)
     IN /\ Lines' = r.Lines
        /\ elast' = [op |-> "Patch", ret |-> r.ret, Line |-> Line,
                     Column |-> Column, Old |-> Old, New |-> New,
                     again |-> /\ elast.op = "Patch" /\ elast.ret
                               /\ <<elast.Line, elast.Column>> = <<Line, Column>>
                               /\ <<elast.Old, elast.New>> = <<Old, New>>]
  /\ ecalls' = ecalls + 1
  /\ UNCHANGED <<efile, etmp, wpc, wout, wbefore>>
  /\ UNCHANGED <<dbVars, carets, applyVars, openVars>>

\* LineEditor::Write, one step per interaction with the file system.  The
\* stream is opened on Path + ".new"; a failed open creates nothing.
WriteOpen ==
  /\ wpc = "idle"
  /\ ecalls' = ecalls + 1
  /\ wbefore' = efile
  /\ \/ /\ etmp' = File(<<>>)
        /\ wout' = [failed |-> FALSE, created |-> TRUE]
        /\ wpc' = "open"
        /\ UNCHANGED elast
     \/ /\ elast' = Call("Write", FALSE)
        /\ wout' = NoStream
        /\ UNCHANGED <<etmp, wpc>>
  /\ UNCHANGED <<efile, Lines>>
  /\ UNCHANGED <<dbVars, carets, applyVars, openVars>>

\* The loop that writes the lines; it ends at the first line that fails.
WriteLines ==
  /\ wpc = "open"
  /\ \E k \in 0..Len(Lines) :
       /\ etmp' = File(PutLines(SubSeq(Lines, 1, k)))
       /\ wout' = [wout EXCEPT !.failed = k < Len(Lines)]
  /\ wpc' = "written"
  /\ UNCHANGED <<efile, Lines, wbefore, elast, ecalls>>
  /\ UNCHANGED <<dbVars, carets, applyVars, openVars>>

\* Write whose failed stream leaves the temporary file where it is.
WriteCloseKeepsTmp ==
  /\ wpc = "written"
  /\ \E closed \in BOOLEAN :
       IF wout.failed \/ ~closed
       THEN /\ elast' = Call("Write", FALSE)
            /\ wout' = [wout EXCEPT !.failed = TRUE]
            /\ wpc' = "idle"
            /\ UNCHANGED etmp
       ELSE /\ wpc' = "closed"
            /\ UNCHANGED <<etmp, elast, wout>>
  /\ UNCHANGED <<efile, Lines, wbefore, ecalls>>
  /\ UNCHANGED <<dbVars, carets, applyVars, openVars>>

\* out.close(), which may fail too; a failed stream has the temporary file
\* unlinked and Write return false.
WriteClose ==
  /\ wpc = "written"
  /\ \E closed \in BOOLEAN :
       IF wout.failed \/ ~closed
       THEN /\ etmp' = NoFile
            /\ elast' = Call("Write", FALSE)
            /\ wout' = [wout EXCEPT !.failed = TRUE]
            /\ wpc' = "idle"
       ELSE /\ wpc' = "closed"
            /\ UNCHANGED <<etmp, elast, wout>>
  /\ UNCHANGED <<efile, Lines, wbefore, ecalls>>
  /\ UNCHANGED <<dbVars, carets, applyVars, openVars>>

\* rename(Tmp, Path); when it fails the temporary file is unlinked.
WriteRename ==
  /\ wpc = "closed"
  /\ \E renamed \in BOOLEAN :
       /\ efile' = IF renamed THEN etmp ELSE efile
       /\ elast' = Call("Write", renamed)
  /\ etmp' = NoFile
  /\ wpc' = "idle"
  /\ UNCHANGED <<Lines, wout, wbefore, ecalls>>
  /\ UNCHANGED <<dbVars, carets, applyVars, openVars>>

\* ------------------------------------------------------------------- Carets
TextChars == {"\t", "x"}
SourceTexts(n) == UNION {[1..k -> TextChars] : k \in 0..n}
NoCarets == [called |-> FALSE, Text |-> <<>>, Column |-> 0, Width |-> 0,
             ret |-> <<>>]

\* The first loop of Carets, over the characters before the column.
RECURSIVE Indent(_, _)
Indent(Text, end) ==
  IF end = 0 THEN <<>>
  ELSE Indent(Text, end - 1) \o <<IF Text[end] = "\t" THEN "\t" ELSE " ">>

\* Carets whose first loop writes a space for every character.
CaretsAllSpaces(Text, Column, Width) ==
  IF Column = 0 THEN <<>>
  ELSE LET end == IF Column - 1 < Len(Text) THEN Column - 1 ELSE Len(Text)
       IN [i \in 1..end |-> " "] \o [i \in 1..Width |-> "^"]

Carets(Text, Column, Width) ==
  IF Column = 0 THEN <<>>
  ELSE LET end == IF Column - 1 < Len(Text) THEN Column - 1 ELSE Len(Text)
       IN Indent(Text, end) \o [i \in 1..Width |-> "^"]

\* A program calls Carets and keeps what it returned.
CaretsCall(Text, Column, Width) ==
  /\ carets' = [called |-> TRUE, Text |-> Text, Column |-> Column,
                Width |-> Width, ret |-> Carets(Text, Column, Width)]
  /\ UNCHANGED <<efile, etmp, Lines, wpc, wout, wbefore, elast, ecalls>>
  /\ UNCHANGED <<dbVars, applyVars, openVars>>

\* --------------------------------------------------- patch-sprintf-overload
\* The findings Report hands to the callback for the file "/a", in order.
Sprintf == <<"s", "p", "r", "i", "n", "t", "f">>
Formatstr == <<"f", "o", "r", "m", "a", "t", "s", "t", "r">>
Messages == {Sprintf \o <<"(">>, <<"v">> \o Sprintf \o <<"(">>, Sprintf, <<"x", "(">>}
Tools == {"sprintf-overload", "other"}
Findings == [path : {"/a"}, line : {1}, column : {1, 2}, tool : Tools,
             message : Messages]
SourceFiles == {File(Sprintf \o <<"(", NL>>),
                File(<<"v">> \o Sprintf \o <<"(", NL>>),
                File(<<"x", NL>>)}
NoEditors == [path \in {} |-> <<>>]

\* std::string::find('('): the position of the first '(', 0 for npos.
FindParen(message) ==
  IF \A i \in 1 .. Len(message) : message[i] # "(" THEN 0
  ELSE CHOOSE i \in 1 .. Len(message) :
         message[i] = "(" /\ \A j \in 1 .. (i - 1) : message[j] # "("

\* The replacement Callback chooses for the function named in the message;
\* ok is FALSE when the message cannot be parsed.
Substitution(message) ==
  LET Pos == FindParen(message)
      Old == SubSeq(message, 1, Pos - 1)
  IN IF Pos = 0 THEN [ok |-> FALSE, Old |-> <<>>, New |-> <<>>]
     ELSE IF Old = Sprintf THEN [ok |-> TRUE, Old |-> Old, New |-> Formatstr]
     ELSE IF Old = <<"v">> \o Sprintf
     THEN [ok |-> TRUE, Old |-> Old, New |-> <<"v">> \o Formatstr]
     ELSE [ok |-> FALSE, Old |-> Old, New |-> <<>>]

\* Callback from the point where it has an editor with the buffer lines:
\* the result it returns, the value it leaves in failed, the buffer, and
\* whether it printed "could not apply".
PatchFinding(f, lines, wasFailed) ==
  LET s == Substitution(f.message)
      r == Patched(lines, f.line, f.column, s.Old, s.New)
  IN IF ~s.ok
     THEN [ret |-> FALSE, failed |-> TRUE, Lines |-> lines, mismatch |-> FALSE,
           patched |-> FALSE]
     ELSE IF ~r.ret
     THEN [ret |-> TRUE, failed |-> TRUE, Lines |-> lines, mismatch |-> TRUE,
           patched |-> FALSE]
     ELSE [ret |-> TRUE, failed |-> wasFailed, Lines |-> r.Lines,
           mismatch |-> FALSE, patched |-> TRUE]

\* What the callback's return value does to the rows still to deliver: false
\* ends the rows of this path.
Deliver(ret) == IF ret THEN Tail(findings) ELSE <<>>

\* Callback for a finding of another tool.
CallbackOther ==
  /\ apc = "scan" /\ findings # <<>>
  /\ Head(findings).tool # "sprintf-overload"
  /\ findings' = Tail(findings)
  /\ UNCHANGED <<apc, dry_run, mainFailed, mainFiles, CB, scanOk, exitStatus, alog>>
  /\ UNCHANGED <<efile, etmp, Lines, wpc, wout, wbefore, elast, ecalls, carets>>
  /\ UNCHANGED <<dbVars, openVars>>

\* Callback for a finding of the tool.  Files.find(path) is looked up in the
\* copy of Files that std::tr1::bind made; nothing is ever inserted, so the
\* lookup returns end(), and Editor->second is a LineEditor that does not
\* exist: the process is killed, or the memory found there serves as an
\* editor (the buffer Lines) that is in no map.
CallbackSprintf ==
  /\ apc = "scan" /\ findings # <<>>
  /\ Head(findings).tool = "sprintf-overload"
  /\ LET f == Head(findings)
     IN IF f.path \in DOMAIN CB.Files
        THEN LET c == PatchFinding(f, CB.Files[f.path], CB.failed)
             IN /\ CB' = [failed |-> c.failed,
                          Files |-> [CB.Files EXCEPT ![f.path] = c.Lines]]
                /\ findings' = Deliver(c.ret)
                /\ alog' = [alog EXCEPT !.mismatch = @ \/ c.mismatch,
                                        !.patched = @ + (IF c.patched THEN 1 ELSE 0)]
                /\ UNCHANGED <<apc, exitStatus, Lines>>
        ELSE \/ /\ apc' = "done"
                /\ exitStatus' = "signal"
                /\ UNCHANGED <<findings, CB, Lines, alog>>
             \/ \E ok \in BOOLEAN :
                  /\ ~efile.exists => ~ok
                  /\ IF ~ok
                     THEN /\ CB' = [CB EXCEPT !.failed = TRUE]
                          /\ findings' = Deliver(FALSE)
                          /\ UNCHANGED <<Lines, alog>>
                     ELSE LET c == PatchFinding(f, GetLines(efile.data), CB.failed)
                          IN /\ CB' = [CB EXCEPT !.failed = c.failed]
                             /\ findings' = Deliver(c.ret)
                             /\ Lines' = c.Lines
                             /\ alog' = [alog EXCEPT
                                           !.mismatch = @ \/ c.mismatch,
                                           !.patched = @ + (IF c.patched THEN 1 ELSE 0)]
                  /\ UNCHANGED <<apc, exitStatus>>
  /\ UNCHANGED <<dry_run, mainFailed, mainFiles, scanOk>>
  /\ UNCHANGED <<efile, etmp, wpc, wout, wbefore, elast, ecalls, carets>>
  /\ UNCHANGED <<dbVars, openVars>>

\* Report returns and main ends: with ok && !failed it writes every editor
\* of its own Files unless dry_run is set and returns 0; otherwise it prints
\* "changes not applied because of previous errors" and returns 1.
ApplierEnd ==
  /\ apc = "scan" /\ findings = <<>>
  /\ apc' = "done"
  /\ IF scanOk /\ ~mainFailed
     THEN IF ~dry_run /\ "/a" \in DOMAIN mainFiles
          THEN \E wrote \in BOOLEAN :
                 /\ efile' = IF wrote THEN File(PutLines(mainFiles["/a"]))
                             ELSE efile
                 /\ exitStatus' = IF wrote THEN "0" ELSE "1"
          ELSE /\ exitStatus' = "0"
               /\ UNCHANGED efile
     ELSE /\ exitStatus' = "1"
          /\ UNCHANGED efile
  /\ UNCHANGED <<findings, dry_run, mainFailed, mainFiles, CB, scanOk, alog>>
  /\ UNCHANGED <<etmp, Lines, wpc, wout, wbefore, elast, ecalls, carets>>
  /\ UNCHANGED <<dbVars, openVars>>

\* patch-sprintf-overload is not running.
InitNoApplier ==
  /\ findings = <<>>
  /\ apc = "none"
  /\ dry_run = FALSE
  /\ mainFailed = FALSE
  /\ mainFiles = NoEditors
  /\ CB = [failed |-> FALSE, Files |-> NoEditors]
  /\ scanOk = TRUE
  /\ exitStatus = "none"
  /\ alog = [mismatch |-> FALSE, patched |-> 0, scan |-> <<>>]

\* ------------------------------------------------------ Database::Open()
\* A path is the sequence of its characters.  FileName stands for
\* "htcondor-analyzer.sqlite".
FileName == <<"f">>
Root == <<"/">>
DirNames == {"a", "b"}

\* The canonical paths of the directories down to depth n, as realpath gives
\* them: "/", or "/" and a name for every component.
RECURSIVE Dirs(_)
Dirs(n) ==
  IF n = 0 THEN {Root}
  ELSE Dirs(n - 1) \cup {(IF d = Root THEN <<>> ELSE d) \o <<"/", c>> :
                           d \in Dirs(n - 1), c \in DirNames}

\* The directory itself and the directories above it, up to the root.
AncestorsOrSelf(dir) ==
  {d \in Dirs(MaxDepth) :
     \/ d = dir
     \/ d = Root
     \/ Len(d) < Len(dir) /\ SubSeq(dir, 1, Len(d)) = d /\ dir[Len(d) + 1] = "/"}

\* The loops of removeTrailingComponent: drop the slashes at the end, drop
\* the characters after the last slash.
RECURSIVE DropSlashes(_)
DropSlashes(path) ==
  IF path # <<>> /\ path[Len(path)] = "/"
  THEN DropSlashes(SubSeq(path, 1, Len(path) - 1))
  ELSE path

RECURSIVE DropName(_)
DropName(path) ==
  IF path # <<>> /\ path[Len(path)] # "/"
  THEN DropName(SubSeq(path, 1, Len(path) - 1))
  ELSE path

\* removeTrailingComponent: the last component goes, with the slashes
\* before and after it.
removeTrailingComponent(path) == DropSlashes(DropName(DropSlashes(path)))

\* How the kernel reads a path name: several slashes count as one.
RECURSIVE Squeeze(_)
Squeeze(name) ==
  IF Len(name) < 2 THEN name
  ELSE IF name[1] = "/" /\ name[2] = "/" THEN Squeeze(Tail(name))
  ELSE <<name[1]>> \o Squeeze(Tail(name))

\* access(name, F_OK) == 0: some directory in stores holds the file named.
Access(name) == \E d \in stores : Squeeze(name) = Squeeze(d \o <<"/">> \o FileName)

NoOpen == [ok |-> FALSE, opened |-> <<>>, msg |-> "", ctx |-> <<>>]

\* Open() up to the loop: the current directory is resolved, which may fail.
OpenStart ==
  /\ opc = "start"
  /\ \E resolved \in BOOLEAN :
       IF resolved
       THEN /\ opath' = cwd
            /\ opc' = "loop"
            /\ UNCHANGED oret
       ELSE /\ opc' = "done"
            /\ oret' = [NoOpen EXCEPT !.msg = "could not resolve current directory: "]
            /\ UNCHANGED opath
  /\ UNCHANGED <<cwd, stores, probes>>
  /\ UNCHANGED <<dbVars, efile, etmp, Lines, wpc, wout, wbefore, elast, ecalls, carets,
                 applyVars>>

\* One turn of the loop: the file name is appended and given to access(); if
\* the file is there Open(path) opens it, which may fail; if not the last
\* component is removed and the loop goes on while path is longer than one
\* character.
OpenLoop ==
  /\ opc = "loop"
  /\ probes' = Append(probes, opath \o <<"/">> \o FileName)
  /\ IF Access(opath \o <<"/">> \o FileName)
     THEN /\ \E opened \in BOOLEAN :
               oret' = [ok |-> opened, opened |-> opath \o <<"/">> \o FileName,
                        msg |-> IF opened THEN "" ELSE "could not open ",
                        ctx |-> <<>>]
          /\ opc' = "done"
          /\ opath' = opath \o <<"/">> \o FileName
     ELSE /\ opath' = removeTrailingComponent(opath)
          /\ IF Len(opath') > 1
             THEN UNCHANGED <<opc, oret>>
             ELSE /\ opc' = "done"
                  /\ oret' = [ok |-> FALSE, opened |-> <<>>,
                              msg |-> "could not find ", ctx |-> cwd]
  /\ UNCHANGED <<cwd, stores>>
  /\ UNCHANGED <<dbVars, efile, etmp, Lines, wpc, wout, wbefore, elast, ecalls, carets,
                 applyVars>>

\* No program has called Database::Open().
InitNoOpen ==
  /\ cwd = Root
  /\ stores = {}
  /\ opath = <<>>
  /\ opc = "none"
  /\ oret = NoOpen
  /\ probes = <<>>

\* --------------------------------------------------------------------- specs
InitStore ==
  /\ disk = [f \in Files |-> <<1, 1>>]
  /\ changes = 0
  /\ mask = [f \in Files |-> 0]
  /\ attempts = [p \in Procs |-> 0]
  /\ unitFail = [p \in Procs |-> "NONE"]
  /\ rpc = "idle"
  /\ rsnap = [files |-> 0, reports |-> 0]
  /\ rpaths = <<>>
  /\ rlast = NoLast
  /\ rresult = TRUE
  /\ rabort = FALSE
  /\ rstopped = {}
  /\ scans = 0
  /\ files = <<>>
  /\ reports = <<>>
  /\ wlock = NoProc
  /\ txn = [p \in Procs |-> NoTxn]
  /\ ErrorMessage = [p \in Procs |-> NoMessage]
  /\ pc = [p \in Procs |-> "idle"]
  /\ Retries = [p \in Procs |-> 0]
  /\ runnerResult = [p \in Procs |-> "NONE"]
  /\ result = [p \in Procs |-> "NONE"]
  /\ FTable = [p \in Procs |-> [n \in PathNames |-> ""]]
  /\ FTE = [p \in Procs |-> [f \in Files |-> NoEntry]]
  /\ Reports = [p \in Procs |-> <<>>]
  /\ lastRecord = [p \in Procs |-> NoRecord]
  /\ TouchedFiles = [p \in Procs |-> <<>>]
  /\ ncalls = [p \in Procs |-> 0]
  /\ calls = [p \in Procs |-> 0]
  /\ sleeps = [p \in Procs |-> <<>>]
  /\ lastAction = [p \in Procs |-> "NONE"]
  /\ lastFail = [p \in Procs |-> "NONE"]
  /\ cause = [p \in Procs |-> "NONE"]
  /\ contended = [p \in Procs |-> TRUE]
  /\ written = [p \in Procs |-> 0]

\* No LineEditor has been constructed, and sleeps are not timed.
InitCommon ==
  /\ InitStore
  /\ naps = [p \in Procs |-> NoNaps]
  /\ efile = NoFile
  /\ etmp = NoFile
  /\ Lines = <<>>
  /\ wpc = "idle"
  /\ wout = NoStream
  /\ wbefore = NoFile
  /\ elast = NoCall
  /\ ecalls = 0
  /\ carets = NoCarets
  /\ InitNoApplier
  /\ InitNoOpen

Init == InitCommon /\ faults = MaxFaults

InitT == InitCommon /\ faults = -1

\* One connection running arbitrary units of work; the other connections show
\* only as the busy and locked outcomes of its statements.
NextT ==
  \/ TotalCalls < MaxCalls /\ Transact("p1")
  \/ GenericRunner("p1")
  \/ TransactStep("p1")

SpecT == InitT /\ [][NextT]_vars

\* The same connection with its sleeps timed.
InitS ==
  /\ InitStore
  /\ faults = -1
  /\ naps = [p \in Procs |-> [NoNaps EXCEPT !.on = TRUE]]
  /\ efile = NoFile
  /\ etmp = NoFile
  /\ Lines = <<>>
  /\ wpc = "idle"
  /\ wout = NoStream
  /\ wbefore = NoFile
  /\ elast = NoCall
  /\ ecalls = 0
  /\ carets = NoCarets
  /\ InitNoApplier
  /\ InitNoOpen

SpecS == InitS /\ [][NextT]_vars

FairSpecT == SpecT /\ WF_vars(GenericRunner("p1")) /\ WF_vars(TransactStep("p1"))

\* One analysis process with its ledger and the other programs that change
\* files; other connections show as injected failures.
Next ==
  \/ /\ TotalOps < MaxOps
     /\ \E Path \in PathNames, payload \in Payloads : Record("p1", Path, payload)
  \/ /\ TotalOps < MaxOps
     /\ \E Path \in PathNames : MarkForProcessing("p1", Path)
  \/ TotalOps < MaxOps /\ Commit("p1")
  \/ RunCommitTransaction("p1")
  \/ TransactStep("p1")
  \/ /\ TotalOps < MaxOps
     /\ \E f \in Files, fp \in Fingerprints \cup {Missing} : Touch(f, fp)

Spec == Init /\ [][Next]_vars

\* Several analysis processes reporting on the file "/a", each with its own
\* connection and ledger, and the reporter reading the store meanwhile.
NextC ==
  \/ \E p \in Procs :
       \/ /\ TotalReports < MaxReportsC
          /\ \E payload \in Payloads : Record(p, "/a", payload)
       \/ TotalCalls < MaxCommitsC /\ Commit(p)
       \/ RunCommitTransaction(p)
       \/ TransactStep(p)
  \/ scans < MaxScans /\ ReportStart
  \/ ReportPath
  \/ ReportEnd

SpecC == Init /\ [][NextC]_vars

\* Analysis processes that mark and report on the file "/a" while it changes
\* on disk, and the reporter; the store meets no failure but lock contention.
InitM == InitCommon /\ faults = 0

NextM ==
  \/ \E p \in Procs :
       \/ /\ TotalReports < MaxReportsC
          /\ Record(p, "/a", CHOOSE payload \in Payloads : payload.line = 1)
       \/ TotalTouched < MaxTouched /\ MarkForProcessing(p, "/a")
       \/ TotalCalls < MaxCommitsC /\ Commit(p)
       \/ RunCommitTransaction(p)
       \/ TransactStep(p)
  \/ scans < MaxScans /\ ReportStart
  \/ ReportPath
  \/ ReportEnd
  \/ changes < MaxChanges /\ \E fp \in Fingerprints : Touch("/a", fp)

SpecM == InitM /\ [][NextM]_vars

\* One analysis process with its ledger, the other programs that change files
\* and the reporter; the ledger's store operations meet no failure, a
\* statement of the query may fail.
NextR ==
  \/ /\ TotalOps < MaxOpsR
     /\ \E Path \in PathNames, payload \in Payloads : Record("p1", Path, payload)
  \/ /\ TotalOps < MaxOpsR
     /\ \E Path \in PathNames : MarkForProcessing("p1", Path)
  \/ TotalOps < MaxOpsR /\ Commit("p1")
  \/ RunCommitTransaction("p1")
  \/ TransactStep("p1")
  \/ /\ TotalOps < MaxOpsR
     /\ \E f \in Files, fp \in Fingerprints \cup {Missing} : Touch(f, fp)
  \/ scans < MaxScans /\ ReportStart
  \/ ReportPath
  \/ ReportEnd
  \/ ReportFail

SpecR == InitM /\ [][NextR]_vars

\* -------------------------------------------------------------------- claims
IsPrefix(a, b) == Len(a) <= Len(b) /\ SubSeq(b, 1, Len(a)) = a

\* What one run of the commit transaction of ledger p stages: a row of files
\* for every canonical entry of FTable, a row of reports for every report.
StagedFiles(p) ==
  [j \in 1 .. Len(CanonKeys(FTable[p])) |->
     [path |-> CanonKeys(FTable[p])[j], fp |-> FTE[p][CanonKeys(FTable[p])[j]].fp]]
StagedReports(p) ==
  [k \in 1 .. Len(Reports[p]) |->
     [path |-> Reports[p][k].FI, payload |-> Reports[p][k].payload]]

\* C1: when Commit returns, the store holds either every row of files and of
\* reports that the call staged, each report under the row of its own file, or
\* no row of the call at all; when Commit returns false it holds none.
C1_CommitAllOrNothing ==
  \A p \in Procs : Returned(p) =>
    IF result[p] = "COMMIT"
    THEN /\ [j \in 1 .. Len(FilesBy(p)) |->
               [path |-> FilesBy(p)[j].path, fp |-> FilesBy(p)[j].fp]] = StagedFiles(p)
         /\ [k \in 1 .. Len(ReportsBy(p)) |->
               [path |-> files[ReportsBy(p)[k].file].path,
                payload |-> ReportsBy(p)[k].payload]] = StagedReports(p)
         /\ \A k \in 1 .. Len(ReportsBy(p)) :
               files[ReportsBy(p)[k].file].by = ReportsBy(p)[k].by
    ELSE FilesBy(p) = <<>> /\ ReportsBy(p) = <<>>

\* A Commit that failed after its transaction had already written rows.
C1_Witness ==
  /\ Returned("p1")
  /\ result["p1"] = "ERROR"
  /\ written["p1"] > 1
  /\ Reports["p1"] # <<>>
  /\ files = <<>>

\* C2: for the row of files the query selects it sees exactly the reports the
\* inserting Commit staged for that row, all written by that same Commit, and
\* it delivers a prefix of them with duplicates removed.
C2_QuerySeesWholeCommits ==
  rlast.FID # 0 =>
    LET row == files[rlast.FID]
        seen == ReportRows(rsnap.reports, rlast.FID)
    IN /\ [i \in 1 .. Len(seen) |-> seen[i].payload] = row.staged
       /\ \A i \in 1 .. Len(seen) : seen[i].by = row.by
       /\ IsPrefix(rlast.delivered, Distinct(row.staged))

\* The query has delivered reports while both processes have committed, one of
\* them after the query took its view of the store.
C2_Witness ==
  /\ rpc = "scan"
  /\ rlast.FID # 0
  /\ rlast.delivered # <<>>
  /\ Len(files) > rsnap.files
  /\ \A p \in Procs : \E i \in 1 .. Len(files) : files[i].by.proc = p

\* C3: a Transact call steps BEGIN at most 6 times, invokes the runner at most
\* 6 times, sleeps at most 5 times, and returns.
C3_TransactBounded ==
  /\ [](\A p \in Procs : /\ attempts[p] <= 6
                         /\ calls[p] <= 6
                         /\ calls[p] <= attempts[p]
                         /\ Len(sleeps[p]) <= 5)
  /\ \A p \in Procs : (pc[p] # "idle") ~> (pc[p] = "idle")

\* A call that used the whole budget: 6 attempts, 6 runner invocations, 5 sleeps.
C3_Witness ==
  /\ Returned("p1")
  /\ attempts["p1"] = 6
  /\ calls["p1"] = 6
  /\ Len(sleeps["p1"]) = 5

\* C4: when three attempts were abandoned for contention and the fourth met no
\* error, Transact returns COMMIT and the store holds the rows of the fourth
\* runner invocation, once, and no row of the abandoned ones.
C4_CommitAfterThreeRetries ==
  \A p \in Procs :
    (/\ Returned(p)
     /\ Retries[p] = 3
     /\ contended[p]
     /\ runnerResult[p] = "COMMIT"
     /\ cause[p] = "NONE")
    => /\ result[p] = "COMMIT"
       /\ Len(FilesBy(p)) + Len(ReportsBy(p)) = written[p]
       /\ \A i \in 1 .. Len(FilesBy(p)) : FilesBy(p)[i].by.attempt = 4
       /\ \A i \in 1 .. Len(ReportsBy(p)) : ReportsBy(p)[i].by.attempt = 4

\* Three abandoned attempts, at least one of which had written a row and met
\* its contention at COMMIT, then a fourth that committed its rows.
C4_Witness ==
  /\ Returned("p1")
  /\ Retries["p1"] = 3
  /\ contended["p1"]
  /\ result["p1"] = "COMMIT"
  /\ calls["p1"] = 4
  /\ lastFail["p1"] = "LOCKED"
  /\ written["p1"] > 0
  /\ FilesBy("p1") # <<>>

\* C5 as stated: after the runner returned ROLLBACK or ERROR, Transact neither
\* invokes it again nor sleeps, leaves the store as it is and returns the
\* runner's own result.
C5_Original ==
  [][\A p \in Procs :
       (pc[p] = "rollback" /\ runnerResult[p] \in {"ROLLBACK", "ERROR"}) =>
         /\ calls'[p] = calls[p]
         /\ sleeps'[p] = sleeps[p]
         /\ pc'[p] \in {"rollback", "idle"}
         /\ files' = files /\ reports' = reports
         /\ (pc'[p] = "idle" => result'[p] = runnerResult[p])]_vars

\* C5 amended: as above, except that Transact returns ERROR instead of ROLLBACK
\* when the ROLLBACK statement itself fails.
C5_RollbackAndErrorEndTransact ==
  [][\A p \in Procs :
       (pc[p] = "rollback" /\ runnerResult[p] \in {"ROLLBACK", "ERROR"}) =>
         /\ calls'[p] = calls[p]
         /\ sleeps'[p] = sleeps[p]
         /\ pc'[p] \in {"rollback", "idle"}
         /\ files' = files /\ reports' = reports
         /\ (pc'[p] = "idle" =>
               result'[p] = IF cause'[p] = "rollback" THEN "ERROR"
                            ELSE runnerResult[p])]_vars

\* The runner wrote a row and returned ROLLBACK, and so did Transact.
C5_Witness ==
  /\ Returned("p1")
  /\ runnerResult["p1"] = "ROLLBACK"
  /\ result["p1"] = "ROLLBACK"
  /\ written["p1"] > 0
  /\ calls["p1"] = 1

\* C6: after a COMMIT statement failed with a code that is neither busy nor
\* locked, Transact does not start another attempt and returns ERROR.
C6_RetryOnlyOnContention ==
  [][\A p \in Procs :
       (/\ pc[p] = "rollback"
        /\ runnerResult[p] = "COMMIT"
        /\ ~TemporaryErrorCode(lastFail[p])) =>
         /\ pc'[p] \in {"rollback", "idle"}
         /\ (pc'[p] = "idle" => result'[p] = "ERROR")]_vars

\* C7: when all 6 attempts ended in contention, Transact returns ERROR with
\* the summary message and no row written by the call is in the store or
\* pending on the connection.
C7_BudgetExhausted ==
  \A p \in Procs :
    (Returned(p) /\ Retries[p] = 6 /\ contended[p]) =>
      /\ result[p] = "ERROR"
      /\ ErrorMessage[p] = [text |-> "could not complete Transact", ctx |-> ""]
      /\ FilesBy(p) = <<>> /\ ReportsBy(p) = <<>>
      /\ txn[p] = NoTxn

\* Six attempts, each invoking a runner that wrote a row, all abandoned.
C7_Witness ==
  /\ Returned("p1")
  /\ Retries["p1"] = 6
  /\ contended["p1"]
  /\ calls["p1"] = 6
  /\ written["p1"] > 0

\* C8 as stated: when the retry budget is exhausted the last store statement
\* Transact stepped was ROLLBACK.
C8_Original ==
  \A p \in Procs :
    (Returned(p) /\ cause[p] = "exhausted") => lastAction[p] = "ROLLBACK"

\* C8 amended: when the retry budget is exhausted the last store statement
\* stepped was ROLLBACK, or it was a BEGIN that failed with busy or locked so
\* that no transaction was started; no transaction is open either way.
C8_LastActionOnExhaustion ==
  \A p \in Procs :
    (Returned(p) /\ cause[p] = "exhausted") =>
      /\ \/ lastAction[p] = "ROLLBACK"
         \/ lastAction[p] = "BEGIN" /\ TemporaryErrorCode(lastFail[p])
      /\ ~txn[p].active

\* The budget ran out on a COMMIT that met contention in the sixth attempt.
C8_Witness ==
  /\ Returned("p1")
  /\ cause["p1"] = "exhausted"
  /\ runnerResult["p1"] = "COMMIT"
  /\ lastAction["p1"] = "ROLLBACK"
  /\ calls["p1"] = 6

\* C9 as stated: whenever Transact returns ERROR after a store operation of
\* the call failed, ErrorMessage holds the text of the last such failure.
C9_Original ==
  \A p \in Procs :
    (/\ Returned(p)
     /\ result[p] = "ERROR"
     /\ lastFail[p] # "NONE"
     /\ cause[p] # "invalid") =>
      ErrorMessage[p].text = lastFail[p]

\* C9 amended: when Transact returns ERROR on a failed BEGIN or a failed
\* ROLLBACK (after a COMMIT, ROLLBACK or RETRY result) ErrorMessage holds the
\* text of that failure; when the runner returned ERROR on a store failure it
\* holds the text of the runner's failure, also if the ROLLBACK then fails; when
\* the budget is exhausted it holds the summary message.
C9_ErrorMessageOnError ==
  \A p \in Procs :
    (Returned(p) /\ result[p] = "ERROR") =>
      /\ cause[p] = "begin" =>
           ErrorMessage[p] = [text |-> lastFail[p], ctx |-> "Transact BEGIN"]
      /\ cause[p] = "rollback" =>
           ErrorMessage[p] = [text |-> lastFail[p], ctx |-> "Transact ROLLBACK"]
      /\ (cause[p] = "NONE" /\ unitFail[p] # "NONE") =>
           ErrorMessage[p].text = unitFail[p]
      /\ cause[p] = "exhausted" =>
           ErrorMessage[p] = [text |-> "could not complete Transact", ctx |-> ""]

\* Transact returned ERROR because the ROLLBACK after a busy COMMIT failed.
C9_Witness ==
  /\ Returned("p1")
  /\ result["p1"] = "ERROR"
  /\ cause["p1"] = "rollback"
  /\ runnerResult["p1"] = "COMMIT"
  /\ ErrorMessage["p1"].ctx = "Transact ROLLBACK"

\* C10: after a Commit that marked path f, and while the file is unchanged
\* since, a query that sees that Commit delivers for f no report of a row that
\* an earlier Commit inserted.
C10_MarkedFileMasksOlderReports ==
  \A f \in Files :
    (/\ rpc = "scan"
     /\ rlast.path = f
     /\ rlast.delivered # <<>>
     /\ mask[f] # 0
     /\ rsnap.files >= mask[f])
    => rlast.FID >= mask[f]

\* C11: a Commit that returned true has inserted, for every path on the list
\* of touched paths, a row of files with that path and with the fingerprint the
\* file had on disk when the commit transaction ran.
C11_TouchedPathGetsCurrentRow ==
  \A p \in Procs : (Returned(p) /\ result[p] = "COMMIT") =>
    \A i \in 1 .. Len(TouchedFiles[p]) :
      \E j \in 1 .. Len(FilesBy(p)) :
        /\ FilesBy(p)[j].path = Canonical(TouchedFiles[p][i])
        /\ FilesBy(p)[j].fp = FilesBy(p)[j].seen

\* C12: when the query handles a path, the row of files it selects is the one
\* with the highest id among the rows whose path and fingerprint equal the
\* path and the file's fingerprint on disk at that moment, and every payload it
\* delivers is that of a report attached to that row; when no row matches, it
\* delivers nothing for the path, the result becomes false and the scan goes on
\* with the next path.
C12_QueryTakesNewestMatchingRow ==
  [][(rpc = "scan" /\ rpaths # <<>> /\ rpaths' # rpaths) =>
       LET path == Head(rpaths)
           ids == {i \in 1 .. rsnap.files :
                     files[i].path = path /\ files[i].fp = disk[path]}
       IN /\ rlast'.path = path
          /\ rpaths' = Tail(rpaths)
          /\ rpc' = "scan"
          /\ IF ids = {}
             THEN rlast'.FID = 0 /\ rlast'.delivered = <<>> /\ rresult' = FALSE
             ELSE /\ rlast'.FID \in ids
                  /\ \A i \in ids : i <= rlast'.FID
                  /\ rresult' = rresult
                  /\ \A k \in 1 .. Len(rlast'.delivered) :
                       \E r \in 1 .. rsnap.reports :
                          /\ reports[r].file = rlast'.FID
                          /\ reports[r].payload = rlast'.delivered[k]]_vars

\* The query delivered the reports of a row although a row with a higher id,
\* another fingerprint and reports of its own is stored for the same path.
C12_Witness ==
  /\ rlast.FID # 0
  /\ rlast.delivered # <<>>
  /\ \E i \in 1 .. rsnap.files :
       /\ i > rlast.FID
       /\ files[i].path = rlast.path
       /\ files[i].fp # files[rlast.FID].fp
       /\ \E r \in 1 .. rsnap.reports : reports[r].file = i

\* The index of the first occurrence of x in the sequence s.
FirstAt(s, x) == CHOOSE i \in 1 .. Len(s) : s[i] = x /\ \A j \in 1 .. i - 1 : s[j] # x

\* C13: when the reports a ledger recorded for a file have been committed, the
\* file has not changed and the callback takes every row, the query selects
\* the newest row of the file and delivers exactly the distinct payloads
\* recorded for it, each once, in the order of their first Record call.
C13_RoundTrip ==
  (rlast.FID # 0 /\ ~rlast.stopped /\ changes = 0) =>
    LET recorded == files[rlast.FID].staged
        d == rlast.delivered
    IN /\ \A i \in 1 .. rsnap.files : files[i].path = rlast.path => i <= rlast.FID
       /\ \A k \in 1 .. Len(recorded) : \E i \in 1 .. Len(d) : d[i] = recorded[k]
       /\ \A i \in 1 .. Len(d) : \E k \in 1 .. Len(recorded) : d[i] = recorded[k]
       /\ \A i, j \in 1 .. Len(d) :
            i < j => d[i] # d[j] /\ FirstAt(recorded, d[i]) < FirstAt(recorded, d[j])

\* Two different reports were recorded, the one on line 2 first, and the query
\* delivered both in that order.
C13_Witness ==
  /\ rlast.FID # 0
  /\ ~rlast.stopped
  /\ Len(rlast.delivered) = 2
  /\ rlast.delivered[1].line = 2
  /\ rlast.delivered[2].line = 1
  /\ Len(files[rlast.FID].staged) = 2

\* C14: every committed report is attached to a row of files whose fingerprint
\* is the one the file had on disk when the Record call for that report was
\* made, also when the file changed between two Record calls of the ledger.
C14_ReportUnderFingerprintAtRecord ==
  \A r \in 1 .. Len(reports) : files[reports[r].file].fp = reports[r].seen

\* A step in which ledger p returns from a Record call.
RecordReturns(p) == lastRecord'[p] # lastRecord[p] \/ Reports'[p] # Reports[p]

\* What a Record call of ledger p that fails leaves behind: the return value
\* false, the message naming the path, and the store, the identity cache and
\* the staged reports as they were.
RecordFailed(p) ==
  /\ lastRecord'[p].ret = FALSE
  /\ ErrorMessage'[p] = [text |-> "could not find file on disk: ",
                         ctx |-> lastRecord'[p].Path]
  /\ UNCHANGED <<files, reports, txn, wlock, FTable, FTE, Reports, TouchedFiles>>

\* C15: a Record call whose path names no file on disk returns false, sets the
\* error message to "could not find file on disk: <path>" and leaves the
\* store, the identity cache and the staged reports unchanged.
C15_RecordOfUnresolvablePath ==
  [][\A p \in Procs :
       (RecordReturns(p) /\ ~ResolvePath(lastRecord'[p].Path)) => RecordFailed(p)]_vars

\* C16: in one ledger all paths with the same canonical path point to one
\* entry of the identity cache, and a run of the commit transaction that gets
\* through its INSERTs has inserted exactly one row of files for every
\* canonical path that has an entry, and none for any other path.
C16_OneRowPerCanonicalPath ==
  /\ [](\A p \in Procs : \A n1, n2 \in PathNames :
          (FTable[p][n1] # "" /\ FTable[p][n2] # "" /\ Canonical(n1) = Canonical(n2))
            => FTable[p][n1] = FTable[p][n2])
  /\ [][\A p \in Procs :
          (pc[p] = "run" /\ pc'[p] # "run" /\ runnerResult'[p] = "COMMIT") =>
            \A f \in Files :
              Cardinality({j \in 1 .. Len(txn'[p].files) : txn'[p].files[j].path = f})
                = IF \E n \in PathNames : FTable'[p][n] # "" /\ Canonical(n) = f
                  THEN 1 ELSE 0]_vars

\* A Commit of two reports, one recorded under "./a" and one under "/a", has
\* stored a single row of files.
C16_Witness ==
  /\ Returned("p1")
  /\ result["p1"] = "COMMIT"
  /\ FTable["p1"]["./a"] = "/a"
  /\ FTable["p1"]["/a"] = "/a"
  /\ Len(ReportsBy("p1")) = 2
  /\ Len(FilesBy("p1")) = 1

\* C17: a MarkForProcessing call appends its path to the ledger's list of
\* touched paths and changes nothing else: the store, the open transaction,
\* the identity cache, the staged reports and the error message stay as they
\* were, and the path is not looked up on disk (a path with no file on disk is
\* accepted like any other).
C17_MarkOnlyTouchesList ==
  [][\A p \in Procs :
       TouchedFiles'[p] # TouchedFiles[p] =>
         /\ \E Path \in PathNames : TouchedFiles'[p] = Append(TouchedFiles[p], Path)
         /\ UNCHANGED <<files, reports, wlock, txn, FTable, FTE, Reports, lastRecord,
                        ErrorMessage, disk>>]_vars

\* A path with no file on disk was marked while a report was staged and
\* nothing had been stored.
C17_Witness ==
  /\ TouchedFiles["p1"] # <<>>
  /\ ~ResolvePath(TouchedFiles["p1"][1])
  /\ FTable["p1"][TouchedFiles["p1"][1]] = ""
  /\ Reports["p1"] # <<>>
  /\ ErrorMessage["p1"] = NoMessage
  /\ files = <<>>
  /\ ncalls["p1"] = 0

\* A run of the commit transaction of ledger p ends in this step, it met no
\* store failure, and one of the touched paths names no file on disk.
RunMeetsMissingPath(p) ==
  /\ pc[p] = "run"
  /\ pc'[p] # "run"
  /\ unitFail'[p] = "NONE"
  /\ \E i \in 1 .. Len(TouchedFiles[p]) : ~ResolvePath(TouchedFiles[p][i])

\* The first touched path of ledger p that names no file on disk.
FirstMissing(p) ==
  TouchedFiles[p][CHOOSE i \in 1 .. Len(TouchedFiles[p]) :
                    /\ ~ResolvePath(TouchedFiles[p][i])
                    /\ \A j \in 1 .. i - 1 : ResolvePath(TouchedFiles[p][j])]

C19_LedgerEmptyAfterCommit ==
  \A p \in Procs : Returned(p) =>
    /\ Reports[p] = <<>>
    /\ TouchedFiles[p] = <<>>
    /\ \A n \in PathNames : FTable[p][n] = ""
    /\ (/\ ncalls[p] >= 2
        /\ Len(SelectSeq(reports, LAMBDA r : r.by.proc = p /\ r.by.call = ncalls[p] - 1))
             = Len(Reports[p])) =>
          FilesBy(p) = <<>> /\ ReportsBy(p) = <<>>

\* The place of a path in lexicographic order.
PathIndex(x) == CHOOSE i \in 1 .. Len(PathOrder) : PathOrder[i] = x

PathUnmatched ==
  \/ disk[Head(rpaths)] = Missing
  \/ \A i \in 1 .. rsnap.files :
       ~(files[i].path = Head(rpaths) /\ files[i].fp = disk[Head(rpaths)])

\* C21: for a path that is missing on disk or has no row matching its current
\* fingerprint the query delivers nothing, sets its result to false and goes
\* on with the next path; a later path that has a matching row still gets its
\* reports delivered (all of them unless the callback stops); the result of
\* a scan starts as true, never turns from false to true, turns false only at
\* such a path or at a store failure, and is what the query returns.
C21_QueryGoesOnAfterMissingFile ==
  [][/\ (rpc = "scan" /\ rpaths' # rpaths) =>
          /\ rpc' = "scan"
          /\ rpaths' = Tail(rpaths)
          /\ PathUnmatched => rlast'.delivered = <<>> /\ rresult' = FALSE
          /\ ~PathUnmatched =>
               /\ rresult' = rresult
               /\ ~rlast'.stopped =>
                    {rlast'.delivered[k] : k \in 1 .. Len(rlast'.delivered)}
                      = {reports[r].payload :
                           r \in {q \in 1 .. rsnap.reports : reports[q].file = rlast'.FID}}
     /\ (rpc = "scan" /\ rpc' = "idle") => rresult' = (rresult /\ ~rabort')
     /\ (rpc = "scan" /\ ~rresult) => ~rresult'
     /\ (rpc = "idle" /\ rpc' = "scan") => rresult']_vars

\* The query has returned false without a store failure, and the last path it
\* handled, after the path that failed, had its reports delivered.
C21_Witness ==
  /\ rpc = "idle"
  /\ scans > 0
  /\ ~rresult
  /\ ~rabort
  /\ rlast.FID # 0
  /\ rlast.delivered # <<>>

\* The rows of reports in the query's snapshot that belong to row FID of files.
RowsOf(FID) == {q \in 1 .. rsnap.reports : reports[q].file = FID}

InitEditor ==
  /\ InitStore
  /\ faults = 0
  /\ naps = [p \in Procs |-> NoNaps]
  /\ efile \in {File(data) : data \in Contents(MaxFileLen)} \cup {NoFile}
  /\ etmp = NoFile
  /\ Lines = <<>>
  /\ wpc = "idle"
  /\ wout = NoStream
  /\ wbefore = NoFile
  /\ elast = NoCall
  /\ ecalls = 0
  /\ carets = NoCarets
  /\ InitNoApplier
  /\ InitNoOpen

NextP ==
  \/ ecalls < MaxEdits /\ Read
  \/ /\ ecalls < MaxEdits
     /\ \E Line \in 0..(Len(Lines) + 1), Column \in 0..(Longest(Lines) + 1),
           Old \in Texts(MaxTextLen), New \in Fills(MaxTextLen) :
          Patch(Line, Column, Old, New)

SpecP == InitEditor /\ [][NextP]_vars


\* The Len(Old) characters of the line from Column on, as far as the line goes.
TextAt(line, Column, n) ==
  SubSeq(line, Column, IF Column + n - 1 < Len(line) THEN Column + n - 1 ELSE Len(line))

\* The step is a call of Patch; elast' holds its arguments and its result.
PatchStep == ecalls' = ecalls + 1 /\ elast'.op = "Patch"

\* The arguments c name no line of the buffer or no column of the line.
OutOfBounds(lines, c) ==
  \/ c.Line = 0 \/ c.Line > Len(lines)
  \/ c.Column = 0 \/ c.Column > Len(lines[c.Line])

\* C23: a Patch call whose line number is 0 or beyond the last line, whose
\* column is 0 or beyond the length of the line, or whose Old differs from the
\* text of the line at the column, returns false and leaves the buffer as it
\* was.
C23_PatchRejectsAndKeepsBuffer ==
  [][(/\ PatchStep
      /\ \/ OutOfBounds(Lines, elast')
         \/ TextAt(Lines[elast'.Line], elast'.Column, Len(elast'.Old)) # elast'.Old)
     => ~elast'.ret /\ Lines' = Lines]_vars

\* A Patch call inside the bounds whose Old differs from the text of the
\* line has returned false (the buffer shown is the one it was given).
C23_Witness ==
  /\ elast.op = "Patch" /\ ~elast.ret
  /\ ~OutOfBounds(Lines, elast)
  /\ Len(elast.Old) = 2
  /\ elast.Column + 1 < Len(Lines[elast.Line])
  /\ TextAt(Lines[elast.Line], elast.Column, 2) # elast.Old


\* The line with the n characters from Column on replaced by New.
Replaced(line, Column, n, New) ==
  SubSeq(line, 1, Column - 1) \o New \o SubSeq(line, Column + n, Len(line))

\* C24: a Patch call inside the bounds whose Old equals the text of the line
\* from the column on, of any length up to and including the end of the
\* line, returns true and replaces exactly that span with New; the other
\* lines and the line count stay as they were.
C24_PatchReplacesMatchedSpan ==
  [][(/\ PatchStep
      /\ ~OutOfBounds(Lines, elast')
      /\ TextAt(Lines[elast'.Line], elast'.Column, Len(elast'.Old)) = elast'.Old)
     => /\ elast'.ret
        /\ Lines' = [Lines EXCEPT ![elast'.Line] =
                       Replaced(Lines[elast'.Line], elast'.Column,
                                Len(elast'.Old), elast'.New)]]_vars


\* Old and New of the call c are not empty and begin with different bytes.
FirstByteDiffers(c) ==
  /\ c.Old # <<>> /\ c.New # <<>>
  /\ c.Old[1] # c.New[1]

\* C25: when a Patch call whose Old and New are not empty and differ in
\* their first byte has succeeded, the same call made again at once returns
\* false and leaves the buffer as the first call left it.
C25_SamePatchAgainFails ==
  [][(PatchStep /\ elast'.again /\ FirstByteDiffers(elast'))
     => ~elast'.ret /\ Lines' = Lines]_vars

\* Such a call was repeated and returned false; the buffer holds New where
\* the first call put it.
C25_Witness ==
  /\ elast.op = "Patch" /\ elast.again /\ ~elast.ret
  /\ FirstByteDiffers(elast)
  /\ TextAt(Lines[elast.Line], elast.Column, Len(elast.New)) = elast.New


\* A LineEditor that reads a file, patches the head of its first line and
\* writes the buffer back, every step of Write failing or not; a temporary
\* file of an earlier run may lie beside the file.
InitW ==
  /\ InitStore
  /\ faults = 0
  /\ naps = [p \in Procs |-> NoNaps]
  /\ efile \in {File(data) : data \in Contents(MaxFileLen)} \cup {NoFile}
  /\ etmp \in {NoFile, File(<<"b", NL>>)}
  /\ Lines = <<>>
  /\ wpc = "idle"
  /\ wout = NoStream
  /\ wbefore = NoFile
  /\ elast = NoCall
  /\ ecalls = 0
  /\ carets = NoCarets
  /\ InitNoApplier
  /\ InitNoOpen

NextW ==
  \/ ecalls < MaxEdits /\ Read
  \/ /\ ecalls < MaxEdits
     /\ \E Old \in Texts(1), New \in Fills(MaxTextLen) : Patch(1, 1, Old, New)
  \/ ecalls < MaxEdits /\ WriteOpen
  \/ WriteLines
  \/ WriteClose
  \/ WriteRename

SpecW == InitW /\ [][NextW]_vars

\* The step ends a call of Write; elast' holds its result.
WriteReturns ==
  /\ elast'.op = "Write" /\ wpc' = "idle"
  /\ wpc # "idle" \/ ecalls' = ecalls + 1

\* C26: a Write call that meets a failure (open, write, close or rename)
\* returns false, leaves no temporary file that it created, and leaves the
\* file at the path as it was before the call; a call that returns true has
\* written the whole buffer; the file at the path changes only by the final
\* rename, and no step of Write changes the buffer.
C26_WriteFailureLeavesFile ==
  [][/\ (WriteReturns /\ ~elast'.ret)
          => /\ wout'.created => ~etmp'.exists
             /\ efile' = wbefore'
     /\ (WriteReturns /\ elast'.ret) => efile' = File(PutLines(Lines))
     /\ efile' # efile => wpc = "closed" /\ WriteReturns /\ efile' = etmp
     /\ (wpc # "idle" \/ wpc' # "idle" \/ WriteReturns) => Lines' = Lines]_vars

\* A Write call of a patched buffer that had created the temporary file and
\* written part of the buffer has returned false.
C26_Witness ==
  /\ elast.op = "Write" /\ ~elast.ret /\ wpc = "idle"
  /\ wout.created /\ wout.failed
  /\ efile.exists /\ efile = wbefore /\ ~etmp.exists
  /\ Len(Lines) > 1
  /\ File(PutLines(Lines)) # efile


\* A program that calls Carets with arbitrary arguments.
NextK ==
  \E Text \in SourceTexts(MaxCaretText), Column \in 0..MaxCaretColumn,
     Width \in 0..MaxCaretWidth : CaretsCall(Text, Column, Width)

InitK == InitCommon /\ faults = 0

SpecK == InitK /\ [][NextK]_vars

\* The number of characters of the text before the column.
Before(c) == IF c.Column - 1 < Len(c.Text) THEN c.Column - 1 ELSE Len(c.Text)

\* C27: Carets returns the empty string for column 0; otherwise one
\* character for each of the first min(column - 1, length) characters of the
\* text, a tab for a tab and a space for any other, and then exactly width
\* carets; for "\tfoo(x)", 6, 3 that is a tab, four spaces and three carets.
C27_CaretsUnderColumn ==
  /\ carets.called =>
       IF carets.Column = 0 THEN carets.ret = <<>>
       ELSE /\ Len(carets.ret) = Before(carets) + carets.Width
            /\ \A i \in 1..Before(carets) :
                 carets.ret[i] = IF carets.Text[i] = "\t" THEN "\t" ELSE " "
            /\ \A i \in (Before(carets) + 1)..Len(carets.ret) :
                 carets.ret[i] = "^"
  /\ Carets(<<"\t", "f", "o", "o", "(", "x", ")">>, 6, 3)
       = <<"\t", " ", " ", " ", " ", "^", "^", "^">>

\* Carets was called with a text that has a tab and another character before
\* the column, and with a width.
C27_Witness ==
  /\ carets.called /\ carets.Column = 3 /\ carets.Width = 2
  /\ carets.Text = <<"x", "\t", "x">>
  /\ carets.ret = <<" ", "\t", "^", "^">>


\* C28: whenever Transact has returned, whatever its result and whatever
\* path it took, the connection has no open transaction and holds no lock of
\* the store.
C28_NoTransactionOutlivesTransact ==
  \A p \in Procs : Returned(p) => ~txn[p].active /\ wlock # p


\* C29: the store only grows at its end, whatever the processes commit and
\* whatever the reporter reads: the committed rows of files and of reports
\* stay where and what they were, and every newly committed files row has the
\* id its writer was given for it, which is greater than every id committed
\* before.
C29_StoreIsAppendOnly ==
  [][/\ Len(files') >= Len(files) /\ SubSeq(files', 1, Len(files)) = files
     /\ Len(reports') >= Len(reports) /\ SubSeq(reports', 1, Len(reports)) = reports
     /\ \A i \in (Len(files) + 1) .. Len(files') :
          /\ FTE[files'[i].by.proc][files'[i].path].ID = i
          /\ \A j \in 1 .. Len(files) : j < i]_vars

\* Two processes have committed a row each for the same path, with a report,
\* and the reporter has read the store.
C29_Witness ==
  /\ Len(files) = 2 /\ files[1].by.proc # files[2].by.proc
  /\ files[1].path = files[2].path
  /\ Len(reports) >= 1
  /\ scans = 1 /\ rpc = "idle"


\* C30 as stated: within one Transact call, the delay slept before a retry
\* is not smaller than the delay slept before the previous retry.
C30_Original ==
  \A p \in Procs :
    Len(naps[p].us) = 2 => naps[p].us[1] <= naps[p].us[2]

\* C30, amended: within one Transact call the argument of RandomSleep is not
\* smaller before a retry than before the previous retry, and each delay
\* slept is less than twice its argument (in microseconds); the delay itself
\* is random and can be smaller than the previous one.
C30_BackoffArgumentGrows ==
  \A p \in Procs :
    /\ \A i \in 1 .. (Len(sleeps[p]) - 1) : sleeps[p][i] <= sleeps[p][i + 1]
    /\ naps[p].on =>
         LET n == Len(sleeps[p])
             k == Len(naps[p].us)
         IN /\ k = (IF n < 2 THEN n ELSE 2)
            /\ \A i \in 1 .. k :
                 naps[p].us[i] < 2 * (sleeps[p][n - k + i] * 1000)

\* A call has slept twice, the second time for a shorter while than the
\* first, with twice the argument.
C30_Witness ==
  /\ Len(sleeps["p1"]) >= 2
  /\ Len(naps["p1"].us) = 2
  /\ naps["p1"].us[2] < naps["p1"].us[1]


\* C31: Transact does not sleep before its first attempt and sleeps once
\* before each later one, before attempt k with the argument
\* 100 * 2^(k - 2) milliseconds (100, 200, 400, 800, 1600); the duration is
\* the sum of two values each in [0, argument * 1000) microseconds, so it is
\* less than twice the argument.
C31_SleepBeforeEachRetry ==
  \A p \in Procs :
    /\ Len(sleeps[p]) = (IF attempts[p] = 0 THEN 0 ELSE attempts[p] - 1)
    /\ Len(sleeps[p]) <= 5
    /\ \A k \in 2 .. (Len(sleeps[p]) + 1) : sleeps[p][k - 1] = 100 * (2 ^ (k - 2))
    /\ naps[p].on =>
         \A i \in 1 .. Len(naps[p].us) :
           LET n == sleeps[p][Len(sleeps[p]) - Len(naps[p].us) + i] * 1000
           IN /\ 0 <= naps[p].us[i] /\ naps[p].us[i] <= (n - 1) + (n - 1)
              /\ naps[p].us[i] < 2 * n

\* A call has made its sixth attempt: it slept five times, the last time
\* with the argument 1600 and for the longest duration there is.
C31_Witness ==
  /\ attempts["p1"] = 6
  /\ sleeps["p1"] = <<100, 200, 400, 800, 1600>>
  /\ Len(naps["p1"].us) = 2
  /\ naps["p1"].us[2] = 2 * (1600 * 1000 - 1)


\* patch-sprintf-overload run on a store whose scan delivers up to
\* MaxFindings findings for the file "/a", with or without -n; the scan
\* itself succeeds or fails.
InitA ==
  /\ InitStore
  /\ faults = 0
  /\ naps = [p \in Procs |-> NoNaps]
  /\ efile \in SourceFiles
  /\ etmp = NoFile
  /\ Lines = <<>>
  /\ wpc = "idle"
  /\ wout = NoStream
  /\ wbefore = efile
  /\ elast = NoCall
  /\ ecalls = 0
  /\ carets = NoCarets
  /\ findings \in UNION {[1 .. n -> Findings] : n \in 0 .. MaxFindings}
  /\ apc = "scan"
  /\ dry_run \in BOOLEAN
  /\ mainFailed = FALSE
  /\ mainFiles = NoEditors
  /\ CB = [failed |-> mainFailed, Files |-> mainFiles]
  /\ scanOk \in BOOLEAN
  /\ exitStatus = "none"
  /\ alog = [mismatch |-> FALSE, patched |-> 0, scan |-> findings]
  /\ InitNoOpen

NextA ==
  \/ CallbackOther
  \/ CallbackSprintf
  \/ ApplierEnd

SpecA == InitA /\ [][NextA]_vars


\* The findings of the tool among the rows fs.
Wanted(fs) == SelectSeq(fs, LAMBDA f : f.tool = "sprintf-overload")

\* The buffer lines with the substitution of every finding of fs applied.
RECURSIVE ApplyAll(_, _)
ApplyAll(lines, fs) ==
  IF fs = <<>> THEN lines
  ELSE LET s == Substitution(Head(fs).message)
       IN ApplyAll(Patched(lines, Head(fs).line, Head(fs).column, s.Old, s.New).Lines,
                   Tail(fs))

\* C32: when patch-sprintf-overload has ended a run without -n in which the
\* scan succeeded and every finding of the tool was patched, the file with
\* those findings holds its lines with all the substitutions applied; when
\* it has ended a run with -n, the file is as it was.
C32_ApplierWritesPatchedFiles ==
  apc = "done" =>
    /\ (/\ ~dry_run /\ scanOk /\ Wanted(alog.scan) # <<>>
        /\ alog.patched = Len(Wanted(alog.scan)))
         => efile = File(PutLines(ApplyAll(GetLines(wbefore.data), Wanted(alog.scan))))
    /\ dry_run => efile = wbefore

\* C33: when a patch did not match the text of the file, the applier has
\* printed the mismatch and gone on to the next finding, and when it has
\* ended no file is changed and its exit status is not 0.
C33_MismatchFailsTheRun ==
  /\ []((apc = "done" /\ alog.mismatch) => exitStatus # "0" /\ efile = wbefore)
  /\ [][(alog'.mismatch /\ ~alog.mismatch)
          => apc' = "scan" /\ findings' = Tail(findings)]_vars


\* A step in which the runner of ledger p's Commit returns.
CommitRunReturns(p) == pc[p] = "run" /\ pc'[p] # "run"

\* C34: every row of reports a run of the commit transaction inserts holds the
\* id of a row of files the same run inserted before it, and that row's path
\* is the canonical path of the file the report was recorded for; this holds
\* for a run that follows a Retry too, whose rows all carry that run's tag.
C34_ReportRowsNameRowsOfTheirRun ==
  /\ [][\A p \in Procs :
          CommitRunReturns(p) =>
            \A k \in 1 .. Len(txn'[p].reports) :
              LET row == txn'[p].reports[k]
                  i == row.file - Len(files)
              IN /\ i \in 1 .. Len(txn'[p].files)
                 /\ txn'[p].files[i].path = Reports[p][k].FI
                 /\ txn'[p].files[i].by = Tag(p)
                 /\ row.by = Tag(p)]_vars
  /\ [][\A p \in Procs :
          Len(Reports'[p]) > Len(Reports[p]) =>
            Reports'[p][Len(Reports'[p])].FI = Canonical(lastRecord'[p].Path)]_vars

\* The run after a Retry has inserted a report recorded under the path "./a",
\* whose row of files has the path "/a".
C34_Witness ==
  /\ pc["p1"] # "run"
  /\ Len(txn["p1"].reports) > 0
  /\ txn["p1"].reports[1].by.attempt > 1
  /\ lastRecord["p1"] = [Path |-> "./a", ret |-> TRUE]


\* One ledger that records and marks, then commits twice with nothing in
\* between, and the reporter, which runs after the second Commit; the file
\* "/a" changes on disk only before the first Commit.
InitD == InitCommon /\ faults = MaxFaults

NextD ==
  \/ /\ ncalls["p1"] = 0
     /\ TotalReports < MaxReportsC
     /\ \E Path \in PathNames, payload \in Payloads : Record("p1", Path, payload)
  \/ /\ ncalls["p1"] = 0
     /\ TotalTouched < MaxTouched
     /\ \E Path \in PathNames : MarkForProcessing("p1", Path)
  \/ /\ ncalls["p1"] = 0
     /\ changes < MaxChanges
     /\ \E fp \in Fingerprints : Touch("/a", fp)
  \/ ncalls["p1"] < MaxCommitsC /\ Commit("p1")
  \/ RunCommitTransaction("p1")
  \/ TransactStep("p1")
  \/ ncalls["p1"] = MaxCommitsC /\ Returned("p1") /\ scans < MaxScans /\ ReportStart
  \/ ReportPath
  \/ ReportEnd

SpecD == InitD /\ [][NextD]_vars

\* The rows the first Commit call of ledger "p1" left in the store.
FirstFiles == Cardinality({i \in 1 .. Len(files) : files[i].by.call = 1})
FirstReports == Cardinality({i \in 1 .. Len(reports) : reports[i].by.call = 1})

\* The second Commit call has returned and the first one had succeeded.
CommittedTwice ==
  /\ ncalls["p1"] = 2
  /\ Returned("p1")
  /\ (FirstFiles > 0 \/ faults = MaxFaults)

\* What a query of the store as the first Commit left it delivers for path:
\* the row of files it selects (0 for none) and the findings, in order.
FirstScan(path) ==
  LET FID == IF ResolvePath(path) THEN FileID(FirstFiles, path, disk[Canonical(path)])
             ELSE 0
  IN [FID |-> FID, rows |-> ReportQuery(FirstReports, FID)]

\* C35: a query made after a second Commit of the same ledger, with no Record
\* or MarkForProcessing call since the first and the files unchanged on disk,
\* visits the same paths, finds a row for the same ones, and delivers for each
\* the findings a query after the first Commit delivers, in the same order.
C35_SecondCommitChangesNoAnswer ==
  (CommittedTwice /\ rsnap.files = Len(files) /\ rsnap.reports = Len(reports)) =>
    /\ FileList(Len(files)) = FileList(FirstFiles)
    /\ rlast.path # "" =>
         /\ (rlast.FID = 0) = (FirstScan(rlast.path).FID = 0)
         /\ IsPrefix(rlast.delivered, FirstScan(rlast.path).rows)
         /\ ~rlast.stopped => rlast.delivered = FirstScan(rlast.path).rows

\* Both Commit calls have written their rows, and the query has delivered two
\* findings from the rows of the second.
C35_Witness ==
  /\ CommittedTwice
  /\ result["p1"] = "COMMIT"
  /\ FirstFiles > 0
  /\ Len(files) > FirstFiles
  /\ rlast.FID > FirstFiles
  /\ Len(rlast.delivered) = 2
  /\ rsnap.files = Len(files)


\* C36: when the unit of work returns ERROR, Transact steps ROLLBACK and
\* returns ERROR, and the ErrorMessage after the return is the one the unit of
\* work left, whether the ROLLBACK succeeded or failed.
C36_UnitErrorMessageSurvivesRollback ==
  /\ [][\A p \in Procs :
          (pc[p] = "run" /\ runnerResult'[p] = "ERROR") => pc'[p] = "rollback"]_vars
  /\ [][\A p \in Procs :
          (pc[p] = "rollback" /\ runnerResult[p] = "ERROR" /\ pc'[p] # "rollback") =>
            /\ pc'[p] = "idle"
            /\ result'[p] = "ERROR"
            /\ ErrorMessage'[p] = ErrorMessage[p]]_vars
  /\ [](\A p \in Procs :
          (Returned(p) /\ runnerResult[p] = "ERROR") =>
            ErrorMessage[p] = IF unitFail[p] = "NONE"
                              THEN [text |-> "unit failed", ctx |-> ""]
                              ELSE SetError(unitFail[p], "unit"))

\* The unit of work returned ERROR with its own message, the ROLLBACK failed,
\* and Transact has returned.
C36_Witness ==
  /\ Returned("p1")
  /\ runnerResult["p1"] = "ERROR"
  /\ unitFail["p1"] = "NONE"
  /\ lastAction["p1"] = "ROLLBACK"
  /\ lastFail["p1"] \in FatalCodes
  /\ ErrorMessage["p1"] = [text |-> "unit failed", ctx |-> ""]


\* The lines of a file: the characters between newlines, and the characters
\* after the last newline if there are any.
RECURSIVE FileLines(_)
FileLines(data) ==
  IF data = <<>> THEN <<>>
  ELSE IF \A i \in 1..Len(data) : data[i] # NL THEN <<data>>
  ELSE LET i == CHOOSE i \in 1..Len(data) :
                  data[i] = NL /\ \A j \in 1..(i - 1) : data[j] # NL
       IN <<SubSeq(data, 1, i - 1)>> \o FileLines(SubSeq(data, i + 1, Len(data)))

\* C37: a Write call that returns true and follows a successful Read with no
\* call in between leaves a file with every line of the file as it was, each
\* ended by a newline, whether or not the last line of the file had one.
C37_ReadThenWriteKeepsLines ==
  [][(elast.op = "Read" /\ elast.ret /\ WriteReturns /\ elast'.ret)
       => efile' = File(PutLines(FileLines(wbefore.data)))]_vars


\* The step is a call of Read; elast' holds its result.
ReadReturns == elast'.op = "Read" /\ ecalls' = ecalls + 1

\* C38: a Read call that returns true leaves as the buffer the lines of the
\* file, whatever lines and patches the buffer held; a Read call that returns
\* false leaves the buffer, patches included, as it was.
C38_ReadReplacesOrKeepsBuffer ==
  [][ReadReturns =>
       IF elast'.ret THEN Lines' = FileLines(efile.data) ELSE Lines' = Lines]_vars


\* A program calls Database::Open() in some directory; the store file lies in
\* that directory or in directories above it, or in none.
InitO ==
  /\ InitStore
  /\ faults = 0
  /\ naps = [p \in Procs |-> NoNaps]
  /\ efile = NoFile
  /\ etmp = NoFile
  /\ Lines = <<>>
  /\ wpc = "idle"
  /\ wout = NoStream
  /\ wbefore = NoFile
  /\ elast = NoCall
  /\ ecalls = 0
  /\ carets = NoCarets
  /\ InitNoApplier
  /\ cwd \in Dirs(MaxDepth)
  /\ stores \in SUBSET AncestorsOrSelf(cwd)
  /\ opath = <<>>
  /\ opc = "start"
  /\ oret = NoOpen
  /\ probes = <<>>

NextO == OpenStart \/ OpenLoop

SpecO == InitO /\ [][NextO]_vars

\* The directory nearest to the current one among those that hold the file.
Nearest == CHOOSE d \in stores : \A e \in stores : Len(e) <= Len(d)

\* C39: Open() ends after at most one turn of its loop for the current
\* directory and each directory above it; once the current directory is
\* resolved it opens the store file of the nearest of these directories that
\* holds one, the root directory included, and it fails with "could not find
\* ... in <cwd> or its parent directories" only when none of them holds it.
C39_OpenFindsNearestStore ==
  /\ Len(probes) <= Cardinality(AncestorsOrSelf(cwd))
  /\ (opc = "done" /\ oret.msg # "could not resolve current directory: ") =>
       /\ stores # {} =>
            /\ oret.msg # "could not find "
            /\ Squeeze(oret.opened) = Squeeze(Nearest \o <<"/">> \o FileName)
       /\ oret.msg = "could not find " => stores = {} /\ oret.ctx = cwd

====
